---- MODULE Spec2Model ----
(***************************************************************************)
(* discord2pushover: the notification routing engine.                      *)
(*                                                                         *)
(* The model covers the rule selector and condition evaluator              *)
(* (rules.go), the dispatcher with its priority based suppression          *)
(* (rules.go, pushover.go), the event handlers for message create and      *)
(* message update (main.go), the acknowledgement poller working on the     *)
(* trackedMessages registry (main.go) and the shutdown of main (main.go).  *)
(* The handler of reaction-add events, of which the sources hold only the  *)
(* test, follows the specification.                                        *)
(*                                                                         *)
(* Go strings that are only compared for equality are TLA+ strings, with   *)
(* "" the empty Go string.  The message body and the contentIncludes       *)
(* keywords, on which the code computes (ToLower, Contains), are sequences *)
(* of runes: the Unicode code points of their characters.  A nil           *)
(* *EmergencyParams is the empty sequence, a non-nil one a sequence        *)
(* holding the one record.                                                 *)
(***************************************************************************)
EXTENDS Integers, Sequences, FiniteSets, Bags, TLC

VARIABLES
    globalConfig,     \* the loaded Config (fixed after start up)
    stateUser,        \* session.State.User.ID, "" while State.User is nil
    discord,          \* the chat platform's messages, by message id
    trackedMessages,  \* sync.Map: receipt id -> TrackedEmergencyMessage
    now,              \* time.Now(), in seconds
    nextReceipt,      \* number of receipts the notification service issued
    poll,             \* position of PollEmergencyAcknowledgements
    hist,             \* per receipt: what happened to it so far
    firstSend,        \* per message: the rule that notified on its create event
    dispatched,       \* per message and rule: notifications sent without error
    inflight,         \* the handlers that run: a bag of handler records
    mainAt,           \* where main() is: waiting for a signal, closing, exited
    last              \* what the handler or callback that returned last did

vars == <<globalConfig, stateUser, discord, trackedMessages, now,
          nextReceipt, poll, hist, firstSend, dispatched, inflight, mainAt,
          last>>

----------------------------------------------------------------------------
(* Bounds of the model *)

MaxReceipts == 2
MaxTime == 2
MaxInFlight == 2

(* Program constants *)

MaxInt32 == 2147483647
DefaultExpireSeconds == 3600
PriorityEmergency == 2
PriorityHigh == 1
PriorityNormal == 0
PriorityLow == -1
PriorityLowest == -2

BotID == "bot"

----------------------------------------------------------------------------
(* Strings the code computes on *)

\* the code points of the characters in which the texts of this module are
\* written
CodePoint ==
    ("A" :> 65) @@ ("B" :> 66) @@ ("a" :> 97) @@ ("b" :> 98)
        @@ ("É" :> 201) @@ ("é" :> 233)

\* the Go string written as the sequence s of its characters
Str(s) == [i \in 1..Len(s) |-> CodePoint[s[i]]]

\* unicode.ToLower, as the ranges <<first, last, step, delta>> of the code
\* points it changes: every step-th code point from first to last becomes
\* itself plus delta.  These are the upper-case and title-case letters of
\* Unicode that have a lower-case form (Latin, Greek, Cyrillic, Armenian,
\* Georgian, Cherokee, Deseret and the others; U+0130 and the Kelvin sign
\* become "i" and "k").
CaseRanges ==
    <<<<65, 90, 1, 32>>, <<192, 214, 1, 32>>, <<216, 222, 1, 32>>,
      <<256, 302, 2, 1>>, <<304, 304, 1, -199>>, <<306, 310, 2, 1>>,
      <<313, 327, 2, 1>>, <<330, 374, 2, 1>>, <<376, 376, 1, -121>>,
      <<377, 381, 2, 1>>, <<385, 385, 1, 210>>, <<386, 388, 2, 1>>,
      <<390, 390, 1, 206>>, <<391, 391, 1, 1>>, <<393, 394, 1, 205>>,
      <<395, 395, 1, 1>>, <<398, 398, 1, 79>>, <<399, 399, 1, 202>>,
      <<400, 400, 1, 203>>, <<401, 401, 1, 1>>, <<403, 403, 1, 205>>,
      <<404, 404, 1, 207>>, <<406, 406, 1, 211>>, <<407, 407, 1, 209>>,
      <<408, 408, 1, 1>>, <<412, 412, 1, 211>>, <<413, 413, 1, 213>>,
      <<415, 415, 1, 214>>, <<416, 420, 2, 1>>, <<422, 422, 1, 218>>,
      <<423, 423, 1, 1>>, <<425, 425, 1, 218>>, <<428, 428, 1, 1>>,
      <<430, 430, 1, 218>>, <<431, 431, 1, 1>>, <<433, 434, 1, 217>>,
      <<435, 437, 2, 1>>, <<439, 439, 1, 219>>, <<440, 440, 1, 1>>,
      <<444, 444, 1, 1>>, <<452, 452, 1, 2>>, <<453, 453, 1, 1>>,
      <<455, 455, 1, 2>>, <<456, 456, 1, 1>>, <<458, 458, 1, 2>>,
      <<459, 475, 2, 1>>, <<478, 494, 2, 1>>, <<497, 497, 1, 2>>,
      <<498, 500, 2, 1>>, <<502, 502, 1, -97>>, <<503, 503, 1, -56>>,
      <<504, 542, 2, 1>>, <<544, 544, 1, -130>>, <<546, 562, 2, 1>>,
      <<570, 570, 1, 10795>>, <<571, 571, 1, 1>>, <<573, 573, 1, -163>>,
      <<574, 574, 1, 10792>>, <<577, 577, 1, 1>>, <<579, 579, 1, -195>>,
      <<580, 580, 1, 69>>, <<581, 581, 1, 71>>, <<582, 590, 2, 1>>,
      <<880, 882, 2, 1>>, <<886, 886, 1, 1>>, <<895, 895, 1, 116>>,
      <<902, 902, 1, 38>>, <<904, 906, 1, 37>>, <<908, 908, 1, 64>>,
      <<910, 911, 1, 63>>, <<913, 929, 1, 32>>, <<931, 939, 1, 32>>,
      <<975, 975, 1, 8>>, <<984, 1006, 2, 1>>, <<1012, 1012, 1, -60>>,
      <<1015, 1015, 1, 1>>, <<1017, 1017, 1, -7>>, <<1018, 1018, 1, 1>>,
      <<1021, 1023, 1, -130>>, <<1024, 1039, 1, 80>>,
      <<1040, 1071, 1, 32>>, <<1120, 1152, 2, 1>>, <<1162, 1214, 2, 1>>,
      <<1216, 1216, 1, 15>>, <<1217, 1229, 2, 1>>, <<1232, 1326, 2, 1>>,
      <<1329, 1366, 1, 48>>, <<4256, 4293, 1, 7264>>,
      <<4295, 4295, 1, 7264>>, <<4301, 4301, 1, 7264>>,
      <<5024, 5103, 1, 38864>>, <<5104, 5109, 1, 8>>,
      <<7312, 7354, 1, -3008>>, <<7357, 7359, 1, -3008>>,
      <<7680, 7828, 2, 1>>, <<7838, 7838, 1, -7615>>, <<7840, 7934, 2, 1>>,
      <<7944, 7951, 1, -8>>, <<7960, 7965, 1, -8>>, <<7976, 7983, 1, -8>>,
      <<7992, 7999, 1, -8>>, <<8008, 8013, 1, -8>>, <<8025, 8031, 2, -8>>,
      <<8040, 8047, 1, -8>>, <<8072, 8079, 1, -8>>, <<8088, 8095, 1, -8>>,
      <<8104, 8111, 1, -8>>, <<8120, 8121, 1, -8>>, <<8122, 8123, 1, -74>>,
      <<8124, 8124, 1, -9>>, <<8136, 8139, 1, -86>>, <<8140, 8140, 1, -9>>,
      <<8152, 8153, 1, -8>>, <<8154, 8155, 1, -100>>,
      <<8168, 8169, 1, -8>>, <<8170, 8171, 1, -112>>,
      <<8172, 8172, 1, -7>>, <<8184, 8185, 1, -128>>,
      <<8186, 8187, 1, -126>>, <<8188, 8188, 1, -9>>,
      <<8486, 8486, 1, -7517>>, <<8490, 8490, 1, -8383>>,
      <<8491, 8491, 1, -8262>>, <<8498, 8498, 1, 28>>,
      <<8544, 8559, 1, 16>>, <<8579, 8579, 1, 1>>, <<9398, 9423, 1, 26>>,
      <<11264, 11311, 1, 48>>, <<11360, 11360, 1, 1>>,
      <<11362, 11362, 1, -10743>>, <<11363, 11363, 1, -3814>>,
      <<11364, 11364, 1, -10727>>, <<11367, 11371, 2, 1>>,
      <<11373, 11373, 1, -10780>>, <<11374, 11374, 1, -10749>>,
      <<11375, 11375, 1, -10783>>, <<11376, 11376, 1, -10782>>,
      <<11378, 11378, 1, 1>>, <<11381, 11381, 1, 1>>,
      <<11390, 11391, 1, -10815>>, <<11392, 11490, 2, 1>>,
      <<11499, 11501, 2, 1>>, <<11506, 11506, 1, 1>>,
      <<42560, 42604, 2, 1>>, <<42624, 42650, 2, 1>>,
      <<42786, 42798, 2, 1>>, <<42802, 42862, 2, 1>>,
      <<42873, 42875, 2, 1>>, <<42877, 42877, 1, -35332>>,
      <<42878, 42886, 2, 1>>, <<42891, 42891, 1, 1>>,
      <<42893, 42893, 1, -42280>>, <<42896, 42898, 2, 1>>,
      <<42902, 42920, 2, 1>>, <<42922, 42922, 1, -42308>>,
      <<42923, 42923, 1, -42319>>, <<42924, 42924, 1, -42315>>,
      <<42925, 42925, 1, -42305>>, <<42926, 42926, 1, -42308>>,
      <<42928, 42928, 1, -42258>>, <<42929, 42929, 1, -42282>>,
      <<42930, 42930, 1, -42261>>, <<42931, 42931, 1, 928>>,
      <<42932, 42946, 2, 1>>, <<42948, 42948, 1, -48>>,
      <<42949, 42949, 1, -42307>>, <<42950, 42950, 1, -35384>>,
      <<42951, 42953, 2, 1>>, <<42960, 42960, 1, 1>>,
      <<42966, 42968, 2, 1>>, <<42997, 42997, 1, 1>>,
      <<65313, 65338, 1, 32>>, <<66560, 66599, 1, 40>>,
      <<66736, 66771, 1, 40>>, <<66928, 66938, 1, 39>>,
      <<66940, 66954, 1, 39>>, <<66956, 66962, 1, 39>>,
      <<66964, 66965, 1, 39>>, <<68736, 68786, 1, 64>>,
      <<71840, 71871, 1, 32>>, <<93760, 93791, 1, 32>>,
      <<125184, 125217, 1, 34>>>>

\* the code points of the range rg
RangeOf(rg) == {rg[1] + k * rg[3] : k \in 0..((rg[2] - rg[1]) \div rg[3])}

\* unicode.ToLower on the code points it changes
LowerOf ==
    [r \in UNION {RangeOf(CaseRanges[n]) : n \in DOMAIN CaseRanges} |->
        r + CaseRanges[CHOOSE n \in DOMAIN CaseRanges :
                          r \in RangeOf(CaseRanges[n])][4]]

\* strings.ToLower on one character: unicode.ToLower, by which a letter that
\* has a lower-case form becomes that form and every other character stays
LowerChar(r) == IF r \in DOMAIN LowerOf THEN LowerOf[r] ELSE r

ToLower(s) == [i \in 1..Len(s) |-> LowerChar(s[i])]

Contains(s, sub) ==
    \E i \in 0..(Len(s) - Len(sub)) : SubSeq(s, i + 1, i + Len(sub)) = sub

----------------------------------------------------------------------------
(* checkRuleConditions: the AND of the active conditions of one rule *)

ChannelIDPasses(message, conditions) ==
    conditions.ChannelID # "" => message.ChannelID = conditions.ChannelID

\* every listed emoji needs a reaction of that name; a reaction the bot
\* added does not count when the rule also sets ReactToAtMention
MessageHasEmojiPasses(message, conditions) ==
    Len(conditions.MessageHasEmoji) > 0 =>
        \A i \in 1..Len(conditions.MessageHasEmoji) :
            \E j \in 1..Len(message.Reactions) :
                /\ message.Reactions[j].Name = conditions.MessageHasEmoji[i]
                /\ ~(conditions.ReactToAtMention /\ message.Reactions[j].Me)

\* rules.go:167-169 without the two ToLower calls
ContentIncludesPasses_CaseSensitive(message, conditions) ==
    Len(conditions.ContentIncludes) > 0 =>
        \A i \in 1..Len(conditions.ContentIncludes) :
            Contains(message.Content, conditions.ContentIncludes[i])

ContentIncludesPasses(message, conditions) ==
    Len(conditions.ContentIncludes) > 0 =>
        \A i \in 1..Len(conditions.ContentIncludes) :
            Contains(ToLower(message.Content),
                     ToLower(conditions.ContentIncludes[i]))

\* rules.go:188-192 passing when the session's user is not known
ReactToAtMentionPasses_Open(message, conditions, user) ==
    conditions.ReactToAtMention =>
        \/ user = ""
        \/ \E i \in 1..Len(message.Mentions) : message.Mentions[i] = user

\* user is the session's State.User.ID, "" when the state or its user is nil
ReactToAtMentionPasses(message, conditions, user) ==
    conditions.ReactToAtMention =>
        /\ user # ""
        /\ \E i \in 1..Len(message.Mentions) : message.Mentions[i] = user

\* rules.go:216-239 without the loop over the role mentions
SpecificMentionsPasses_UsersOnly(message, conditions) ==
    Len(conditions.SpecificMentions) > 0 =>
        \E i \in 1..Len(conditions.SpecificMentions) :
            \E j \in 1..Len(message.Mentions) :
                message.Mentions[j] = conditions.SpecificMentions[i]

SpecificMentionsPasses(message, conditions) ==
    Len(conditions.SpecificMentions) > 0 =>
        \E i \in 1..Len(conditions.SpecificMentions) :
            \/ \E j \in 1..Len(message.Mentions) :
                   message.Mentions[j] = conditions.SpecificMentions[i]
            \/ \E j \in 1..Len(message.MentionRoles) :
                   message.MentionRoles[j] = conditions.SpecificMentions[i]

\* rules.go:116-250 returning true as soon as one condition passes
checkRuleConditions_AnyCondition(message, conditions, user) ==
    \/ ChannelIDPasses(message, conditions)
    \/ MessageHasEmojiPasses(message, conditions)
    \/ ContentIncludesPasses(message, conditions)
    \/ ReactToAtMentionPasses(message, conditions, user)
    \/ SpecificMentionsPasses(message, conditions)

checkRuleConditions(message, conditions, user) ==
    /\ ChannelIDPasses(message, conditions)
    /\ MessageHasEmojiPasses(message, conditions)
    /\ ContentIncludesPasses(message, conditions)
    /\ ReactToAtMentionPasses(message, conditions, user)
    /\ SpecificMentionsPasses(message, conditions)

----------------------------------------------------------------------------
(* SendPushoverNotification                                                *)
(* resp is what app.SendMessage answers: [Err, Status, Receipt].           *)
(* The result is the pair the function returns: [receipt, err].            *)

\* pushover.go:212-218 without the fallback: priority 2 is sent as an
\* emergency whether or not the rule has emergency parameters
MessagePriority_EmergencyAnyway(ruleAction) ==
    CASE ruleAction.Priority = -2 -> PriorityLowest
      [] ruleAction.Priority = -1 -> PriorityLow
      [] ruleAction.Priority = 0 -> PriorityNormal
      [] ruleAction.Priority = 1 -> PriorityHigh
      [] ruleAction.Priority = 2 -> PriorityEmergency
      [] OTHER -> PriorityNormal

\* the priority the outgoing message carries
MessagePriority(ruleAction) ==
    CASE ruleAction.Priority = -2 -> PriorityLowest
      [] ruleAction.Priority = -1 -> PriorityLow
      [] ruleAction.Priority = 0 -> PriorityNormal
      [] ruleAction.Priority = 1 -> PriorityHigh
      [] ruleAction.Priority = 2 ->
            IF ruleAction.Emergency # <<>> THEN PriorityEmergency
                                           ELSE PriorityHigh
      [] OTHER -> PriorityNormal

SendPushoverNotification(config, ruleAction, resp) ==
    IF config.PushoverAppKey = "" THEN [receipt |-> "", err |-> TRUE]
    ELSE IF ruleAction.PushoverDestination = ""
        THEN [receipt |-> "", err |-> TRUE]
    ELSE IF resp.Err THEN [receipt |-> "", err |-> TRUE]
    ELSE IF resp.Status # 1 THEN [receipt |-> "", err |-> TRUE]
    ELSE IF MessagePriority(ruleAction) = PriorityEmergency
        THEN [receipt |-> resp.Receipt, err |-> FALSE]
    ELSE [receipt |-> "", err |-> FALSE]

----------------------------------------------------------------------------
(* ProcessRules                                                            *)
(* env is what the collaborators answer during the call:                   *)
(*   env.resp     the answer of app.SendMessage, [Err, Status, Receipt]    *)
(*   env.reactOk  whether session.MessageReactionAdd returns nil           *)
(*   env.now      time.Now()                                               *)
(* The result fx lists, in order, what the call did.                       *)

NoEffects ==
    [evaluated |-> <<>>, matched |-> <<>>, suppressed |-> <<>>,
     sends |-> <<>>, reacts |-> <<>>, stores |-> <<>>]

\* rules.go:42 with the comparison turned around
Suppress_Below(rule, previouslyNotifiedRulePriority) ==
    /\ previouslyNotifiedRulePriority # MaxInt32
    /\ rule.Actions.Priority <= previouslyNotifiedRulePriority

\* rules.go:42, the suppression test for a rule that has a destination
Suppress(rule, previouslyNotifiedRulePriority) ==
    /\ previouslyNotifiedRulePriority # MaxInt32
    /\ rule.Actions.Priority >= previouslyNotifiedRulePriority

\* rules.go:40-50 without the test of the destination
SendNotification_AnyDestination(rule, previouslyNotifiedRulePriority) ==
    ~Suppress(rule, previouslyNotifiedRulePriority)

\* rules.go:40-50
SendNotification(rule, previouslyNotifiedRulePriority) ==
    IF rule.Actions.PushoverDestination # ""
        THEN ~Suppress(rule, previouslyNotifiedRulePriority)
        ELSE FALSE

\* rules.go:85 with < in the place of <=: an expireSeconds of zero is kept
ExpiryDuration_ZeroKept(emergency) ==
    IF emergency.Expire < 0 THEN DefaultExpireSeconds ELSE emergency.Expire

\* rules.go:84-88
ExpiryDuration(emergency) ==
    IF emergency.Expire <= 0 THEN DefaultExpireSeconds ELSE emergency.Expire

\* rules.go:90-96
TrackedEmergencyMessage(message, receiptID, emergency, t) ==
    [DiscordMessageID |-> message.ID,
     DiscordChannelID |-> message.ChannelID,
     PushoverReceiptID |-> receiptID,
     AckEmoji |-> emergency.AckEmoji,
     ExpiryTime |-> t + ExpiryDuration(emergency)]

\* rules.go:82 without the test of the receipt
ShouldTrack_AnyReceipt(rule, sendNotification, sent) ==
    /\ sendNotification
    /\ ~sent.err
    /\ rule.Actions.Priority = 2
    /\ rule.Actions.Emergency # <<>>

\* rules.go:82-83, the condition under which the send is tracked
ShouldTrack(rule, sendNotification, sent) ==
    /\ sendNotification
    /\ ~sent.err
    /\ sent.receipt # ""
    /\ rule.Actions.Priority = 2
    /\ rule.Actions.Emergency # <<>>

\* rules.go:68 asked only after a send without error
ShouldReact_AfterSend(rule, sendNotification, sent) ==
    /\ rule.Actions.ReactionEmoji # ""
    /\ sendNotification
    /\ ~sent.err

\* rules.go:68 without the test of the reactionEmoji
ShouldReact_Always(rule, sendNotification, sent) == TRUE

\* rules.go:68, whether the rule's reaction is requested
ShouldReact(rule, sendNotification, sent) ==
    rule.Actions.ReactionEmoji # ""

\* rules.go:34-103, the actions of the matched rule i
TriggerActions(i, message, config, previouslyNotifiedRulePriority, env, fx) ==
    LET rule == config.Rules[i]
        sendNotification == SendNotification(rule, previouslyNotifiedRulePriority)
        sent == IF sendNotification
                    THEN SendPushoverNotification(config, rule.Actions, env.resp)
                    ELSE [receipt |-> "", err |-> FALSE]
    IN  [fx EXCEPT
            !.matched = Append(@, i),
            !.suppressed =
                IF /\ rule.Actions.PushoverDestination # ""
                   /\ Suppress(rule, previouslyNotifiedRulePriority)
                    THEN Append(@, i) ELSE @,
            !.sends =
                IF sendNotification
                    THEN Append(@, [rule |-> i,
                                    Destination |-> rule.Actions.PushoverDestination,
                                    Priority |-> MessagePriority(rule.Actions),
                                    err |-> sent.err,
                                    receipt |-> sent.receipt])
                    ELSE @,
            !.reacts =
                IF ShouldReact(rule, sendNotification, sent)
                    THEN Append(@, [ChannelID |-> message.ChannelID,
                                    MessageID |-> message.ID,
                                    Emoji |-> rule.Actions.ReactionEmoji,
                                    ok |-> env.reactOk])
                    ELSE @,
            !.stores =
                IF ShouldTrack(rule, sendNotification, sent)
                    THEN Append(@, TrackedEmergencyMessage(message, sent.receipt,
                                       rule.Actions.Emergency[1], env.now))
                    ELSE @]

RECURSIVE RulesFrom(_, _, _, _, _, _, _)

\* rules.go:104-106 without the return: the loop goes on to the next rule
AfterMatch_Continue(i, message, config, user, previouslyNotifiedRulePriority, env, fx) ==
    RulesFrom(i + 1, message, config, user, previouslyNotifiedRulePriority,
              env, fx)

\* rules.go:104-106 with the return taken only after a send that worked:
\* when the send failed the loop goes on to the next rule
AfterMatch_RetryOnError(i, message, config, user, previouslyNotifiedRulePriority, env, fx) ==
    IF fx.sends # <<>> /\ fx.sends[Len(fx.sends)].err
        THEN RulesFrom(i + 1, message, config, user,
                       previouslyNotifiedRulePriority, env, fx)
        ELSE fx

\* rules.go:104-106, what follows the actions of the matched rule i: return
AfterMatch(i, message, config, user, previouslyNotifiedRulePriority, env, fx) ==
    fx

RECURSIVE RulesFrom_DefaultFirst(_, _, _, _, _, _, _)
\* rules.go:108-110 with a fallback: when no rule's conditions hold the
\* actions of the first rule are triggered
RulesFrom_DefaultFirst(i, message, config, user, previouslyNotifiedRulePriority, env, fx) ==
    IF i > Len(config.Rules)
        THEN IF Len(config.Rules) > 0
                THEN TriggerActions(1, message, config,
                                    previouslyNotifiedRulePriority, env, fx)
                ELSE fx
    ELSE LET fx1 == [fx EXCEPT !.evaluated = Append(@, i)] IN
         IF checkRuleConditions(message, config.Rules[i].Conditions, user)
            THEN TriggerActions(i, message, config,
                                previouslyNotifiedRulePriority, env, fx1)
            ELSE RulesFrom_DefaultFirst(i + 1, message, config, user,
                                        previouslyNotifiedRulePriority, env, fx1)

\* rules.go:16-109, the loop over config.Rules from rule i on
RulesFrom(i, message, config, user, previouslyNotifiedRulePriority, env, fx) ==
    IF i > Len(config.Rules) THEN fx
    ELSE LET fx1 == [fx EXCEPT !.evaluated = Append(@, i)] IN
         IF checkRuleConditions(message, config.Rules[i].Conditions, user)
            THEN AfterMatch(i, message, config, user,
                            previouslyNotifiedRulePriority, env,
                            TriggerActions(i, message, config,
                                previouslyNotifiedRulePriority, env, fx1))
            ELSE RulesFrom(i + 1, message, config, user,
                           previouslyNotifiedRulePriority, env, fx1)

ProcessRules(message, config, user, previouslyNotifiedRulePriority, env) ==
    RulesFrom(1, message, config, user, previouslyNotifiedRulePriority, env,
              NoEffects)

----------------------------------------------------------------------------
(* The configurations and messages the model runs on *)

Cond(channel, emojis, atMention, mentions, keywords) ==
    [ChannelID |-> channel, MessageHasEmoji |-> emojis,
     ReactToAtMention |-> atMention, SpecificMentions |-> mentions,
     ContentIncludes |-> keywords]

Act(destination, priority, emoji, emergency) ==
    [PushoverDestination |-> destination, Priority |-> priority,
     ReactionEmoji |-> emoji, Emergency |-> emergency]

Emerg(ackEmoji, expire, retry) ==
    <<[AckEmoji |-> ackEmoji, Expire |-> expire, Retry |-> retry]>>

\* an emergency rule on a keyword, a low priority rule on a mention and a
\* catch-all: a message can match several rules, of differing priority
ConfigA ==
    [PushoverAppKey |-> "appkey",
     Rules |-> <<
        [Name |-> "urgent",
         Conditions |-> Cond("c1", <<>>, FALSE, <<>>, << Str(<<"a", "B">>) >>),
         Actions |-> Act("grp", 2, "siren", Emerg("ok", 2, 30))],
        [Name |-> "low",
         Conditions |-> Cond("", <<>>, FALSE, <<"u2">>, <<>>),
         Actions |-> Act("grp", -1, "bell", <<>>)],
        [Name |-> "normal",
         Conditions |-> Cond("", <<>>, FALSE, <<>>, <<>>),
         Actions |-> Act("grp", 0, "eyes", <<>>)] >>]

\* emergency rules that are misconfigured or have no emojis, a rule on a
\* reaction, a rule without destination
ConfigB ==
    [PushoverAppKey |-> "appkey",
     Rules |-> <<
        [Name |-> "mention",
         Conditions |-> Cond("", <<>>, TRUE, <<>>, <<>>),
         Actions |-> Act("grp", 2, "siren", <<>>)],
        [Name |-> "quiet",
         Conditions |-> Cond("c1", <<>>, FALSE, <<>>, << Str(<<"a", "b">>) >>),
         Actions |-> Act("grp", 2, "", Emerg("", 0, 30))],
        [Name |-> "fire",
         Conditions |-> Cond("", <<"fire">>, FALSE, <<>>, <<>>),
         Actions |-> Act("grp", 1, "bell", <<>>)],
        [Name |-> "seen",
         Conditions |-> Cond("c1", <<>>, FALSE, <<>>, <<>>),
         Actions |-> Act("", 0, "eyes", <<>>)] >>]

\* an emergency rule that leaves no reaction behind, so that every event on
\* a message sends again and several notifications are tracked at a time;
\* the entries have an ackEmoji and expire soon.  A message without the
\* keyword goes through both rules and matches none: the second rule is
\* for another channel
ConfigT ==
    [PushoverAppKey |-> "appkey",
     Rules |-> <<
        [Name |-> "urgent",
         Conditions |-> Cond("", <<>>, FALSE, <<>>, << Str(<<"a", "b">>) >>),
         Actions |-> Act("grp", 2, "", Emerg("ok", 1, 30))],
        [Name |-> "elsewhere",
         Conditions |-> Cond("c2", <<>>, FALSE, <<>>, <<>>),
         Actions |-> Act("grp", 0, "eyes", <<>>)] >>]

\* the same with entries that have no ackEmoji and expire later
ConfigS ==
    [PushoverAppKey |-> "appkey",
     Rules |-> <<
        [Name |-> "silent",
         Conditions |-> Cond("", <<>>, FALSE, <<>>, <<>>),
         Actions |-> Act("grp", 2, "", Emerg("", 2, 30))] >>]

\* an emergency rule that matches every message and leaves a reaction
\* behind: an edit of a message it has marked is suppressed, an edit of a
\* message whose reaction-add call failed sends again
ConfigU ==
    [PushoverAppKey |-> "appkey",
     Rules |-> <<
        [Name |-> "alarm",
         Conditions |-> Cond("", <<>>, FALSE, <<>>, <<>>),
         Actions |-> Act("grp", 2, "siren", Emerg("ok", 1, 30))] >>]

RoutingConfigs == {ConfigA, ConfigB}

TrackerConfigs == {ConfigT, ConfigS}

MessageIDs == {"m1"}

\* the channel a message id lives in
ChannelOf(id) == IF id = "m1" THEN "c1" ELSE "c2"

\* what a user can write: body, user mentions, role mentions
Bodies ==
    {[Content |-> Str(<<"b">>), Mentions |-> <<>>, MentionRoles |-> <<>>],
     [Content |-> Str(<<"A", "b">>), Mentions |-> <<>>, MentionRoles |-> <<>>],
     [Content |-> Str(<<"b">>), Mentions |-> <<BotID>>,
      MentionRoles |-> <<"u2">>]}

Authors == {"u1", BotID}

\* the kinds of answer of app.SendMessage: an error, a status other than 1,
\* success without a receipt, success with a receipt
AnswerKind(resp) ==
    IF resp.Err THEN "error"
    ELSE IF resp.Status # 1 THEN "rejected"
    ELSE IF resp.Receipt = "" THEN "plain"
    ELSE "receipt"

\* the surroundings of a specification: who posts, and what; how the
\* notification service answers a send; whether the fetch of an edited
\* message can fail; the reactions the payload of a create event lists
\* (messageCreate does not look at them); the emojis other users react
\* with; whether the reaction-add calls can fail; and whether the
\* notifications sent are counted in dispatched
RoutingUsers ==
    [authors |-> Authors, bodies |-> Bodies,
     answers |-> {"error", "rejected", "plain", "receipt"},
     fetches |-> BOOLEAN,
     carried |-> {{}, {[Name |-> "eyes", Me |-> TRUE]}},
     emojis |-> {"fire"},
     reactions |-> BOOLEAN,
     tally |-> FALSE]

TrackerUsers ==
    [authors |-> {"u1"},
     bodies |-> {b \in Bodies : b.Mentions = <<>>},
     answers |-> {"error", "receipt"},
     fetches |-> {TRUE},
     carried |-> {{}},
     emojis |-> {},
     reactions |-> BOOLEAN,
     tally |-> FALSE]

\* one user who posts and edits one text, where the send and the
\* reaction-add calls can fail
RegistryUsers ==
    [authors |-> {"u1"},
     bodies |-> {b \in Bodies : b.Content = Str(<<"A", "b">>)},
     answers |-> {"error", "receipt"},
     fetches |-> {TRUE},
     carried |-> {{}},
     emojis |-> {},
     reactions |-> BOOLEAN,
     tally |-> FALSE]

\* users who also react with the reactionEmoji of a rule; a message may
\* have a reaction of the bot that is no rule's reactionEmoji (as the
\* ackEmoji of main.go:274 is); the sends return without a receipt and the
\* reaction-add calls of the bot succeed
ReactionUsers ==
    [authors |-> Authors, bodies |-> Bodies,
     answers |-> {"plain"},
     fetches |-> BOOLEAN,
     carried |-> {{}, {[Name |-> "ok", Me |-> TRUE]}},
     emojis |-> {"fire", "bell"},
     reactions |-> {TRUE},
     tally |-> FALSE]

\* a platform on which every fetch and every reaction-add call succeeds; the
\* notifications sent are counted
OverlapUsers ==
    [authors |-> {"u1"}, bodies |-> Bodies,
     answers |-> {"error", "plain", "receipt"},
     fetches |-> {TRUE},
     carried |-> {{}},
     emojis |-> {},
     reactions |-> {TRUE},
     tally |-> TRUE]

UserEmojis == {"fire"}

NoMessage == [ID |-> ""]

Message(id, author, body, reactions) ==
    [ID |-> id, ChannelID |-> ChannelOf(id), AuthorID |-> author,
     Content |-> body.Content, Mentions |-> body.Mentions,
     MentionRoles |-> body.MentionRoles, Reactions |-> reactions]

ReceiptIds == <<"rc1", "rc2", "rc3", "rc4", "rc5", "rc6">>

Receipts == {ReceiptIds[i] : i \in 1..MaxReceipts}

\* the answers of app.SendMessage; the service issues a receipt not issued before
SendResponses ==
    {[Err |-> TRUE, Status |-> 0, Receipt |-> ""],
     [Err |-> FALSE, Status |-> 0, Receipt |-> ""],
     [Err |-> FALSE, Status |-> 1, Receipt |-> ""]}
    \cup (IF nextReceipt < MaxReceipts
            THEN {[Err |-> FALSE, Status |-> 1,
                   Receipt |-> ReceiptIds[nextReceipt + 1]]}
            ELSE {})

\* the answers of app.GetReceiptDetails
ReceiptResponses ==
    [Err : {FALSE}, Status : {0, 1}, Acknowledged : BOOLEAN]
    \cup {[Err |-> TRUE, Status |-> 0, Acknowledged |-> FALSE]}

\* the answers of a service that every receipt query reaches
ReceiptDetails == {resp \in ReceiptResponses : ~resp.Err}

----------------------------------------------------------------------------
(* The chat platform *)

\* The platform keeps one reaction entry per emoji of a message, here as a
\* set of [Name, Me]; a message handed to the bot lists them in a sequence.
HasReaction(reactions, emoji) ==
    \E r \in reactions : r.Name = emoji

\* the bot's reaction on a message: the emoji's entry gets Me = true
AddBotReaction(reactions, emoji) ==
    {r \in reactions : r.Name # emoji} \cup {[Name |-> emoji, Me |-> TRUE]}

\* another user's reaction: a new entry unless the emoji has one
AddUserReaction(reactions, emoji) ==
    IF HasReaction(reactions, emoji) THEN reactions
    ELSE reactions \cup {[Name |-> emoji, Me |-> FALSE]}

RECURSIVE SeqOf(_)
\* the entries of a set, listed in some fixed order
SeqOf(set) ==
    IF set = {} THEN <<>>
    ELSE LET x == CHOOSE y \in set : TRUE
         IN  <<x>> \o SeqOf(set \ {x})

\* the message as the platform delivers it (event payload or ChannelMessage)
Delivered(m) == [m EXCEPT !.Reactions = SeqOf(@)]

RECURSIVE ApplyReacts(_, _, _)
\* the reaction-add calls of a step, applied where they succeeded
ApplyReacts(d, reacts, n) ==
    IF n > Len(reacts) THEN d
    ELSE LET r == reacts[n]
             d1 == IF r.ok /\ d[r.MessageID] # NoMessage
                       THEN [d EXCEPT ![r.MessageID].Reactions =
                                          AddBotReaction(@, r.Emoji)]
                       ELSE d
         IN  ApplyReacts(d1, reacts, n + 1)

\* rules.go:97 with a Store that replaces the entries of the same message
RECURSIVE ApplyStores_OnePerMessage(_, _, _)
ApplyStores_OnePerMessage(tm, stores, n) ==
    IF n > Len(stores) THEN tm
    ELSE LET e == stores[n]
             k == e.PushoverReceiptID
             keep == {x \in DOMAIN tm :
                        tm[x].DiscordMessageID # e.DiscordMessageID}
         IN  ApplyStores_OnePerMessage(
                 [x \in keep \cup {k} |-> IF x = k THEN e ELSE tm[x]],
                 stores, n + 1)

RECURSIVE ApplyStores(_, _, _)
\* trackedMessages.Store(receiptID, trackedMsg), for each store of a step
ApplyStores(tm, stores, n) ==
    IF n > Len(stores) THEN tm
    ELSE LET e == stores[n]
             k == e.PushoverReceiptID
         IN  ApplyStores([x \in (DOMAIN tm) \cup {k} |->
                             IF x = k THEN e ELSE tm[x]], stores, n + 1)

\* trackedMessages.Delete(receiptID)
Delete(tm, k) == [x \in (DOMAIN tm) \ {k} |-> tm[x]]

\* per receipt: how often it was stored, how often the poller ended its
\* tracking (expired, failed, acknowledged), and whether the receipt query
\* of its last visit returned an error
NoHist == [stored |-> 0, terminal |-> 0, erred |-> FALSE]

\* the counters of hist stop at 2
Count(n) == IF n < 2 THEN n + 1 ELSE n

RECURSIVE HistStores(_, _, _)
HistStores(h, stores, n) ==
    IF n > Len(stores) THEN h
    ELSE HistStores([h EXCEPT ![stores[n].PushoverReceiptID].stored = Count(@)],
                    stores, n + 1)

\* dispatched after the send calls of a ProcessRules run on message id:
\* the sends that returned without error are counted under their rule
Tally(users, id, fx) ==
    IF users.tally
        THEN [dispatched EXCEPT ![id] =
                [i \in DOMAIN @ |->
                    IF \E n \in 1..Len(fx.sends) :
                          fx.sends[n].rule = i /\ ~fx.sends[n].err
                        THEN Count(@[i]) ELSE @[i]]]
        ELSE dispatched

\* receipts the send calls of a step returned
IssuedBy(fx) ==
    Cardinality({fx.sends[n].receipt : n \in 1..Len(fx.sends)} \ {""})

----------------------------------------------------------------------------
(* The acknowledgement poller: the callback of trackedMessages.Range *)

\* main.go:251 with Before in the place of After
Expired_Before(t, trackedMsg) == t < trackedMsg.ExpiryTime

\* main.go:251, time.Now().After(trackedMsg.ExpiryTime)
Expired(t, trackedMsg) == t > trackedMsg.ExpiryTime

\* main.go:265-269 with the acknowledgement looked at before the status
Outcome_AckFirst(t, trackedMsg, resp) ==
    IF Expired(t, trackedMsg) THEN "expired"
    ELSE IF resp.Err THEN "error"
    ELSE IF resp.Acknowledged THEN "acked"
    ELSE IF resp.Status # 1 THEN "failed"
    ELSE "pending"

\* main.go:251-286: which branch the callback takes; resp is the answer of
\* app.GetReceiptDetails, asked for only when the entry has not expired
Outcome(t, trackedMsg, resp) ==
    IF Expired(t, trackedMsg) THEN "expired"
    ELSE IF resp.Err THEN "error"
    ELSE IF resp.Status # 1 THEN "failed"
    ELSE IF resp.Acknowledged THEN "acked"
    ELSE "pending"

\* main.go:261: the branches that call app.GetReceiptDetails
QueriedOn(outcome) == outcome # "expired"

\* main.go:262-264 with a Delete in the error branch
DeletedOn_Error(outcome) == outcome \in {"expired", "failed", "acked", "error"}

\* main.go:283 without the Delete of the acknowledged entry
DeletedOn_NotAcked(outcome) == outcome \in {"expired", "failed"}

\* main.go:284-286 with a Delete in the branch of an unacknowledged receipt
DeletedOn_Pending(outcome) ==
    outcome \in {"expired", "failed", "acked", "pending"}

\* main.go:252-255 without the Delete of the expired entry
DeletedOn_ExpiredKept(outcome) == outcome \in {"failed", "acked"}

\* main.go:254, 268, 283: the branches that call trackedMessages.Delete
DeletedOn(outcome) == outcome \in {"expired", "failed", "acked"}

\* main.go:272 without the test of AckEmoji
ReactsOn_Always(outcome, trackedMsg, reactOk) ==
    IF outcome = "acked"
        THEN <<[ChannelID |-> trackedMsg.DiscordChannelID,
                MessageID |-> trackedMsg.DiscordMessageID,
                Emoji |-> trackedMsg.AckEmoji,
                ok |-> reactOk]>>
        ELSE <<>>

\* main.go:273-274: the reaction-add calls of a branch
ReactsOn(outcome, trackedMsg, reactOk) ==
    IF outcome = "acked" /\ trackedMsg.AckEmoji # ""
        THEN <<[ChannelID |-> trackedMsg.DiscordChannelID,
                MessageID |-> trackedMsg.DiscordMessageID,
                Emoji |-> trackedMsg.AckEmoji,
                ok |-> reactOk]>>
        ELSE <<>>

\* main.go:255 returning false: the pass ends at an expired entry
ContinueIteration_StopAtExpired(outcome) == outcome # "expired"

\* main.go:247, 255, 287: the callback's return value, true to continue
ContinueIteration(outcome) == TRUE

\* main.go:273-283 with the Delete left out when the reaction-add call of
\* the acknowledgement failed, so that a later tick tries it again
Callback_KeepOnReactError(receiptID, trackedMsg, t, resp, reactOk) ==
    LET outcome == Outcome(t, trackedMsg, resp)
    IN  [outcome |-> outcome,
         queried |-> QueriedOn(outcome),
         reacts |-> ReactsOn(outcome, trackedMsg, reactOk),
         delete |-> /\ DeletedOn(outcome)
                    /\ (outcome = "acked" /\ trackedMsg.AckEmoji # "") => reactOk,
         cont |-> ContinueIteration(outcome)]

\* main.go:241-288: what the callback does with one entry
Callback(receiptID, trackedMsg, t, resp, reactOk) ==
    LET outcome == Outcome(t, trackedMsg, resp)
    IN  [outcome |-> outcome,
         queried |-> QueriedOn(outcome),
         reacts |-> ReactsOn(outcome, trackedMsg, reactOk),
         delete |-> DeletedOn(outcome),
         cont |-> ContinueIteration(outcome)]

----------------------------------------------------------------------------
(* The event handlers *)

\* main.go:380-399 left out: every edit starts from the sentinel
PreviouslyNotifiedRulePriority_Sentinel(fullMessage, config) == MaxInt32

\* main.go:380-399: the most urgent (numerically smallest) priority among the
\* rules whose reactionEmoji the bot has put on the message
PreviouslyNotifiedRulePriority(fullMessage, config) ==
    LET found == {config.Rules[i].Actions.Priority :
                    i \in {i \in 1..Len(config.Rules) :
                        \E j \in 1..Len(fullMessage.Reactions) :
                            /\ fullMessage.Reactions[j].Me
                            /\ config.Rules[i].Actions.ReactionEmoji =
                                   fullMessage.Reactions[j].Name}}
        below == {p \in found : p < MaxInt32}
    IN  IF below = {} THEN MaxInt32
        ELSE CHOOSE p \in below : \A q \in below : p <= q

\* the comparison of main.go:357 left out
UpdateHandled_AnyFullAuthor(user, deltaAuthor, fetchOk, fullMessage) ==
    /\ user # ""
    /\ ~(deltaAuthor # "" /\ deltaAuthor = user)
    /\ fetchOk

\* main.go:312 with the baseline of an edit
CreateBaseline_FromReactions(m, config) ==
    PreviouslyNotifiedRulePriority(m, config)

\* main.go:312: the baseline messageCreate passes to ProcessRules
CreateBaseline(m, config) == MaxInt32

\* main.go:369-371 wrapping the payload of the event
EvaluatedMessage_Delta(delta, fullMessage) == delta

\* main.go:369-371: the message messageUpdateLogic passes to ProcessRules
EvaluatedMessage(delta, fullMessage) == fullMessage

\* main.go:294-317: whether messageCreate reaches ProcessRules
CreateHandled(user, m) ==
    /\ user # ""
    /\ m.AuthorID # user

\* main.go:331-350: whether messageUpdateLogic reaches the fetch of the message
UpdateFetches(user, deltaAuthor) ==
    /\ user # ""
    /\ ~(deltaAuthor # "" /\ deltaAuthor = user)

\* main.go:330-360: whether messageUpdateLogic reaches ProcessRules;
\* deltaAuthor is m.Author.ID of the event, "" when m.Author is nil
UpdateHandled(user, deltaAuthor, fetchOk, fullMessage) ==
    /\ user # ""
    /\ ~(deltaAuthor # "" /\ deltaAuthor = user)
    /\ fetchOk
    /\ fullMessage.AuthorID # user

\* A collaborator that is not called gives no answer: the step then takes
\* the first of the answers.
NoSendResponse == [Err |-> TRUE, Status |-> 0, Receipt |-> ""]

NoReceiptResponse == [Err |-> TRUE, Status |-> 0, Acknowledged |-> FALSE]

\* the rule, if any, for which a ProcessRules run that does fx sent the
\* notification and had the rule's reaction added to the message; else 0
SentAndMarked(fx) ==
    IF /\ \E n \in 1..Len(fx.sends) : ~fx.sends[n].err
       /\ \E n \in 1..Len(fx.reacts) : fx.reacts[n].ok
        THEN fx.matched[1]
        ELSE 0

\* the rules whose conditions hold on a message
Matching(message, config, user) ==
    {i \in 1..Len(config.Rules) :
        checkRuleConditions(message, config.Rules[i].Conditions, user)}

\* rules.go:82-97 with the registration left out when the reaction-add
\* call of the rule failed
Store_TrackAfterReaction(tm, fx) ==
    IF \A n \in 1..Len(fx.reacts) : fx.reacts[n].ok
        THEN ApplyStores(tm, fx.stores, 1)
        ELSE tm

\* rules.go:97: the registry after the Store calls of a ProcessRules run
Store(tm, fx) == ApplyStores(tm, fx.stores, 1)

\* no callback of the poller is running
NoVisit == [pc |-> "idle"]

\* last after a step in which no handler and no callback returned
NoReturn == [kind |-> "step"]

InitWith(configs) ==
    /\ globalConfig \in configs
    /\ stateUser = ""
    /\ discord = [id \in MessageIDs |-> NoMessage]
    /\ trackedMessages = <<>>
    /\ now = 0
    /\ nextReceipt = 0
    /\ poll = [active |-> FALSE, start |-> {}, visited |-> {},
               stopped |-> FALSE, late |-> FALSE, visit |-> NoVisit]
    /\ hist = [k \in Receipts |-> NoHist]
    /\ firstSend = [id \in MessageIDs |-> 0]
    /\ dispatched = [id \in MessageIDs |->
                        [i \in 1..Len(globalConfig.Rules) |-> 0]]
    /\ inflight = EmptyBag
    /\ mainAt = "waiting"
    /\ last = [kind |-> "init"]

\* main.go:198-216: the handlers and the poller run in goroutines of the
\* process, which are there until main returns
Alive == mainAt # "exited"

\* the session receives the bot's identity (State.User is set)
SessionReady ==
    /\ stateUser = ""
    /\ stateUser' = BotID
    /\ last' = NoReturn
    /\ UNCHANGED <<globalConfig, discord, trackedMessages, now,
                   nextReceipt, poll, hist, firstSend, dispatched,
                   inflight, mainAt>>

\* the answers app.SendMessage can give in the surroundings users
SendAnswers(users) ==
    {resp \in SendResponses : AnswerKind(resp) \in users.answers}

\* the answers a handler has before it made any call
NoAnswers == [resp |-> NoSendResponse, reactOk |-> TRUE, now |-> 0]

\* Every handler runs in a goroutine of its own (the session is not set to
\* SyncEvents) and blocks in its calls to the platform and to the
\* notification service.  A handler in flight is a record: the event it
\* handles (kind, msg, from: the user the event names), the message m it
\* holds (the payload, and from the fetch on the message it evaluates),
\* what it found (first: the rule that notified on the create event when
\* the event came, handled, fetched, fetchOk, baseline, matching,
\* reactions), the answers env its calls got so far, and pc, the call it
\* is about to make: "fetch" (main.go:350), "send" (pushover.go:227),
\* "react" (rules.go:71), "store" (rules.go:95-97) or "done".

\* rules.go:14-111 on the handler's message with the answers env
Effects(h, env) ==
    IF h.handled
        THEN ProcessRules(h.m, globalConfig, stateUser, h.baseline, env)
        ELSE NoEffects

\* rules.go:56, 71, 95: the call a ProcessRules run that does fx makes next,
\* after the call made ("none" at its start)
NextCall(made, fx) ==
    IF made = "none" /\ fx.sends # <<>> THEN "send"
    ELSE IF made \in {"none", "send"} /\ fx.reacts # <<>> THEN "react"
    ELSE IF made # "store" /\ fx.stores # <<>> THEN "store"
    ELSE "done"

\* what a handler that returned leaves in last: the event, what the handler
\* found and the calls fx it made; added are the entries its last step put
\* into the registry, kept whether that step left the others as they were
Returned(h, fx) ==
    [kind |-> h.kind, msg |-> h.msg, handled |-> h.handled,
     fetched |-> h.fetched, fetchOk |-> h.fetchOk,
     baseline |-> h.baseline, fx |-> fx, first |-> h.first,
     matching |-> h.matching, reactions |-> h.reactions,
     added |-> (DOMAIN trackedMessages') \ (DOMAIN trackedMessages),
     kept |-> \A k \in DOMAIN trackedMessages :
                 /\ k \in DOMAIN trackedMessages'
                 /\ trackedMessages'[k] = trackedMessages[k]]

\* a handler goes from the state before (a bag: empty for the handler of a
\* new event) to the state h, having made the calls of fx
Proceeds(before, h, fx) ==
    /\ h.pc # "done" =>
          BagCardinality(inflight (-) before) < MaxInFlight
    /\ inflight' = IF h.pc = "done"
                       THEN inflight (-) before
                       ELSE (inflight (-) before) (+) SetToBag({h})
    /\ last' = IF h.pc = "done"
                   THEN Returned(h, fx)
                   ELSE NoReturn
    /\ firstSend' = IF h.pc = "done" /\ h.kind = "create"
                        THEN [firstSend EXCEPT ![h.msg] = SentAndMarked(fx)]
                        ELSE firstSend

\* main.go:294-312 and rules.go:14-53: a message is posted and messageCreate
\* runs on the event's message up to its first call
messageCreate(users) ==
    \E id \in MessageIDs, author \in users.authors, body \in users.bodies,
       carried \in users.carried :
        /\ Alive
        /\ UNCHANGED <<globalConfig, stateUser, trackedMessages, now,
                       nextReceipt, poll, hist, dispatched, mainAt>>
        /\ discord[id] = NoMessage
        /\ LET posted == Message(id, author, body, carried)
               m == Delivered(posted)
               handled == CreateHandled(stateUser, m)
               h0 == [kind |-> "create", msg |-> id, from |-> author,
                      m |-> m, first |-> 0, handled |-> handled,
                      fetched |-> FALSE, fetchOk |-> TRUE,
                      baseline |-> CreateBaseline(m, globalConfig),
                      matching |-> IF handled
                                      THEN Matching(m, globalConfig, stateUser)
                                      ELSE {},
                      reactions |-> IF handled THEN carried ELSE {},
                      env |-> NoAnswers, pc |-> "done"]
               fx == Effects(h0, NoAnswers)
           IN  /\ discord' = [discord EXCEPT ![id] = posted]
               /\ Proceeds(EmptyBag, [h0 EXCEPT !.pc = NextCall("none", fx)], fx)

\* whether the update event names the message's author (m.Author non-nil);
\* the handler looks at it only to compare it with the bot
EventAuthors(m) ==
    IF m # NoMessage /\ m.AuthorID = BotID THEN BOOLEAN ELSE {FALSE}

\* main.go:330-348: a message is edited and messageUpdateLogic runs on the
\* event up to the fetch of the message; the event names the author or not
\* and its payload (delta) lists no reactions
messageUpdateLogic(users) ==
    \E id \in MessageIDs, body \in users.bodies :
      \E deltaHasAuthor \in EventAuthors(discord[id]) :
        /\ Alive
        /\ UNCHANGED <<globalConfig, stateUser, trackedMessages, now,
                       nextReceipt, poll, hist, dispatched, mainAt>>
        /\ discord[id] # NoMessage
        /\ LET edited == [discord[id] EXCEPT
                                  !.Content = body.Content,
                                  !.Mentions = body.Mentions,
                                  !.MentionRoles = body.MentionRoles]
               deltaAuthor == IF deltaHasAuthor THEN edited.AuthorID ELSE ""
               delta == [Delivered(edited) EXCEPT !.AuthorID = deltaAuthor,
                                                  !.Reactions = <<>>]
               fetches == UpdateFetches(stateUser, deltaAuthor)
               h0 == [kind |-> "edit", msg |-> id, from |-> deltaAuthor,
                      m |-> delta, first |-> firstSend[id],
                      handled |-> FALSE,
                      fetched |-> fetches, fetchOk |-> TRUE,
                      baseline |-> MaxInt32, matching |-> {},
                      reactions |-> {}, env |-> NoAnswers,
                      pc |-> IF fetches THEN "fetch" ELSE "done"]
           IN  /\ discord' = [discord EXCEPT ![id] = edited]
               /\ Proceeds(EmptyBag, h0, NoEffects)

\* The handler of reaction-add events, as the specification describes it
\* (its code is not in main.go): reactor is the user whose reaction the
\* event reports.

\* the handler without the test of the reactor
ReactionAddFetches_AnyReactor(user, reactor) == user # ""

\* whether the handler reaches the fetch of the message: not for a reaction
\* of the bot itself
ReactionAddFetches(user, reactor) ==
    /\ user # ""
    /\ reactor # user

\* whether the handler reaches ProcessRules: the message was fetched and its
\* author is not the bot
ReactionAddHandled(user, reactor, fetchOk, fullMessage) ==
    /\ ReactionAddFetches(user, reactor)
    /\ fetchOk
    /\ fullMessage.AuthorID # user

\* the baseline without the test of Me: the reactions of other users count
\* as well
ReactionAddBaseline_AnyReactor(fullMessage, config) ==
    LET found == {config.Rules[i].Actions.Priority :
                    i \in {i \in 1..Len(config.Rules) :
                        \E j \in 1..Len(fullMessage.Reactions) :
                            config.Rules[i].Actions.ReactionEmoji =
                                fullMessage.Reactions[j].Name}}
        below == {p \in found : p < MaxInt32}
    IN  IF below = {} THEN MaxInt32
        ELSE CHOOSE p \in below : \A q \in below : p <= q

\* the baseline the handler passes to ProcessRules: that of the reactions
\* the bot has on the fetched message, computed as messageUpdateLogic does
ReactionAddBaseline(fullMessage, config) ==
    PreviouslyNotifiedRulePriority(fullMessage, config)

\* who reacts: another user, or the bot by a reaction-add call of its own
Reactors == {"u1", BotID}

\* the emojis a reaction-add event of the reactor can report on message m:
\* those the users react with, and for the bot those it has put on m
ReactedEmojis(reactor, m, users) ==
    IF reactor = BotID
        THEN {r.Name : r \in {r \in m.Reactions : r.Me}}
        ELSE users.emojis

\* a reaction is added to a message and the handler runs on the event up to
\* the fetch of the message; the event of a reaction of the bot follows the
\* reaction-add call that made it
messageReactionAddLogic(users) ==
    \E id \in MessageIDs, reactor \in Reactors :
        /\ Alive
        /\ UNCHANGED <<globalConfig, stateUser, trackedMessages, now,
                       nextReceipt, poll, hist, dispatched, mainAt>>
        /\ stateUser # ""
        /\ discord[id] # NoMessage
        /\ \E emoji \in ReactedEmojis(reactor, discord[id], users) :
            LET reacted == IF reactor = BotID THEN discord[id]
                           ELSE [discord[id] EXCEPT
                                    !.Reactions = AddUserReaction(@, emoji)]
                fetches == ReactionAddFetches(stateUser, reactor)
                h0 == [kind |-> IF reactor = BotID THEN "reactionadd_bot"
                                                   ELSE "reactionadd",
                       msg |-> id, from |-> reactor,
                       m |-> NoMessage, first |-> firstSend[id],
                       handled |-> FALSE,
                       fetched |-> fetches, fetchOk |-> TRUE,
                       baseline |-> MaxInt32, matching |-> {},
                       reactions |-> {}, env |-> NoAnswers,
                       pc |-> IF fetches THEN "fetch" ELSE "done"]
            IN  /\ discord' = [discord EXCEPT ![id] = reacted]
                /\ Proceeds(EmptyBag, h0, NoEffects)

\* main.go:350-406 and rules.go:14-53: session.ChannelMessage returns the
\* message as the platform has it at that time, or fails; the handler goes
\* on to the author test, the baseline and the rules, up to its next call
HandlerFetches(users) ==
    \E h \in BagToSet(inflight), fetchOk \in users.fetches :
        /\ Alive
        /\ UNCHANGED <<globalConfig, stateUser, discord, trackedMessages, now,
                       nextReceipt, poll, hist, dispatched, mainAt>>
        /\ h.pc = "fetch"
        /\ LET fullMessage == Delivered(discord[h.msg])
               handled ==
                   IF h.kind = "edit"
                       THEN UpdateHandled(stateUser, h.from, fetchOk, fullMessage)
                       ELSE ReactionAddHandled(stateUser, h.from, fetchOk,
                                               fullMessage)
               h1 == [h EXCEPT
                        !.m = IF ~handled THEN NoMessage
                              ELSE IF h.kind = "edit"
                                  THEN EvaluatedMessage(h.m, fullMessage)
                                  ELSE fullMessage,
                        !.handled = handled,
                        !.fetchOk = fetchOk,
                        !.baseline =
                            IF ~handled THEN MaxInt32
                            ELSE IF h.kind = "edit"
                                THEN PreviouslyNotifiedRulePriority(fullMessage,
                                                                    globalConfig)
                                ELSE ReactionAddBaseline(fullMessage,
                                                         globalConfig),
                        !.matching =
                            IF handled
                                THEN Matching(fullMessage, globalConfig, stateUser)
                                ELSE {},
                        !.reactions = IF handled THEN discord[h.msg].Reactions
                                                 ELSE {}]
               fx == Effects(h1, NoAnswers)
           IN  Proceeds(SetToBag({h}), [h1 EXCEPT !.pc = NextCall("none", fx)], fx)

\* pushover.go:227 and rules.go:56-66: app.SendMessage returns with the
\* service's answer, and the handler goes on to its next call
HandlerSends(users) ==
    \E h \in BagToSet(inflight) :
      \E resp \in SendAnswers(users) :
        /\ Alive
        /\ UNCHANGED <<globalConfig, stateUser, discord, trackedMessages, now,
                       poll, hist, mainAt>>
        /\ h.pc = "send"
        /\ LET env == [h.env EXCEPT !.resp = resp]
               fx == Effects(h, env)
           IN  /\ nextReceipt' = nextReceipt + IssuedBy(fx)
               /\ dispatched' = Tally(users, h.msg, fx)
               /\ Proceeds(SetToBag({h}),
                           [h EXCEPT !.env = env, !.pc = NextCall("send", fx)],
                           fx)

\* rules.go:71-81: session.MessageReactionAdd returns, the reaction on the
\* message or not, and the handler goes on to its next call
HandlerReacts(users) ==
    \E h \in BagToSet(inflight), reactOk \in users.reactions :
        /\ Alive
        /\ UNCHANGED <<globalConfig, stateUser, trackedMessages, now,
                       nextReceipt, poll, hist, dispatched, mainAt>>
        /\ h.pc = "react"
        /\ LET env == [h.env EXCEPT !.reactOk = reactOk]
               fx == Effects(h, env)
           IN  /\ discord' = ApplyReacts(discord, fx.reacts, 1)
               /\ Proceeds(SetToBag({h}),
                           [h EXCEPT !.env = env, !.pc = NextCall("react", fx)],
                           fx)

\* rules.go:82-106: the handler reads the clock, stores the entry of the
\* emergency notification and returns
HandlerStores ==
    \E h \in BagToSet(inflight) :
        /\ Alive
        /\ h.pc = "store"
        /\ LET env == [h.env EXCEPT !.now = now]
               fx == Effects(h, env)
           IN  /\ trackedMessages' = Store(trackedMessages, fx)
               /\ hist' = HistStores(hist, fx.stores, 1)
               /\ Proceeds(SetToBag({h}),
                           [h EXCEPT !.env = env, !.pc = NextCall("store", fx)],
                           fx)
        /\ UNCHANGED <<globalConfig, stateUser, discord, now, nextReceipt,
                       poll, dispatched, mainAt>>

\* another user reacts to a message
UserReaction ==
    \E id \in MessageIDs, emoji \in UserEmojis :
        /\ discord[id] # NoMessage
        /\ ~HasReaction(discord[id].Reactions, emoji)
        /\ discord' = [discord EXCEPT ![id].Reactions = AddUserReaction(@, emoji)]
        /\ last' = NoReturn
        /\ UNCHANGED <<globalConfig, stateUser, trackedMessages, now,
                       nextReceipt, poll, hist, firstSend, dispatched,
                       inflight, mainAt>>

\* time passes
AdvanceClock ==
    /\ now < MaxTime
    /\ now' = now + 1
    /\ last' = NoReturn
    /\ UNCHANGED <<globalConfig, stateUser, discord, trackedMessages,
                   nextReceipt, poll, hist, firstSend, dispatched,
                   inflight, mainAt>>

\* main.go:204-205: a signal arrives and main goes on to close the session
SignalReceived ==
    /\ mainAt = "waiting"
    /\ mainAt' = "closing"
    /\ last' = NoReturn
    /\ UNCHANGED <<globalConfig, stateUser, discord, trackedMessages, now,
                   nextReceipt, poll, hist, firstSend, dispatched, inflight>>

\* main.go:209-216: dg.Close() has returned and main returns, which ends the
\* process and every goroutine in it
MainReturns ==
    /\ mainAt = "closing"
    /\ mainAt' = "exited"
    /\ last' = NoReturn
    /\ UNCHANGED <<globalConfig, stateUser, discord, trackedMessages, now,
                   nextReceipt, poll, hist, firstSend, dispatched, inflight>>

\* The poller is one goroutine: the callback of Range runs on one entry at
\* a time and blocks in app.GetReceiptDetails and in
\* session.MessageReactionAdd.  poll.visit is the callback that runs: the
\* entry (key, entry), the time t it read at main.go:251, the answers it
\* got (resp, reactOk) and pc, what it does next: "query" (main.go:261),
\* "react" (main.go:274) or "return" (main.go:283-287).

\* main.go:240-241: the ticker fires and a pass over trackedMessages begins
PollBegin ==
    /\ Alive
    /\ ~poll.active
    /\ poll' = [active |-> TRUE, start |-> DOMAIN trackedMessages,
                visited |-> {}, stopped |-> FALSE,
                late |-> mainAt # "waiting", visit |-> NoVisit]
    /\ last' = NoReturn
    /\ UNCHANGED <<globalConfig, stateUser, discord, trackedMessages, now,
                   nextReceipt, hist, firstSend, dispatched, inflight,
                   mainAt>>

\* main.go:246-287: the callback returns on the entry of visit v, having
\* done c: the entry is deleted or kept, and Range goes on or stops
VisitEnds(v, c) ==
    /\ trackedMessages' =
           IF c.delete THEN Delete(trackedMessages, v.key)
                       ELSE trackedMessages
    /\ poll' = [poll EXCEPT !.visited = @ \cup {v.key},
                            !.stopped = ~c.cont,
                            !.visit = NoVisit]
    /\ hist' = [hist EXCEPT ![v.key].terminal =
                                IF c.outcome \in {"expired", "failed", "acked"}
                                    THEN Count(@) ELSE @,
                            ![v.key].erred = (c.outcome = "error")]
    /\ last' = [kind |-> "poll", key |-> v.key, entry |-> v.entry,
                t |-> v.t, resp |-> v.resp, queried |-> c.queried,
                reacts |-> c.reacts, prior |-> hist[v.key]]

\* main.go:241-260: Range calls the callback on an entry it has not visited
\* in this pass; the callback reads the clock and deletes the entry when it
\* has expired, else it goes on to query the receipt
PollVisit ==
    \E k \in DOMAIN trackedMessages :
        /\ Alive
        /\ poll.active
        /\ ~poll.stopped
        /\ poll.visit = NoVisit
        /\ k \notin poll.visited
        /\ LET v == [pc |-> "query", key |-> k, entry |-> trackedMessages[k],
                     t |-> now, resp |-> NoReceiptResponse, reactOk |-> TRUE]
               c == Callback(k, v.entry, v.t, v.resp, v.reactOk)
           IN  IF c.queried
                   THEN /\ poll' = [poll EXCEPT !.visit = v]
                        /\ last' = NoReturn
                        /\ UNCHANGED <<trackedMessages, hist>>
                   ELSE VisitEnds(v, c)
        /\ UNCHANGED <<globalConfig, stateUser, discord, now, nextReceipt,
                       firstSend, dispatched, inflight, mainAt>>

\* main.go:261-272, 284-287: app.GetReceiptDetails returns; the callback
\* returns unless it goes on to add the ackEmoji
PollQueries(responses) ==
    \E resp \in responses :
        /\ Alive
        /\ poll.visit.pc = "query"
        /\ LET v == [poll.visit EXCEPT !.resp = resp]
               c == Callback(v.key, v.entry, v.t, v.resp, v.reactOk)
           IN  IF c.reacts # <<>>
                   THEN /\ poll' = [poll EXCEPT !.visit = [v EXCEPT !.pc = "react"]]
                        /\ last' = NoReturn
                        /\ UNCHANGED <<trackedMessages, hist>>
                   ELSE VisitEnds(v, c)
        /\ UNCHANGED <<globalConfig, stateUser, discord, now, nextReceipt,
                       firstSend, dispatched, inflight, mainAt>>

\* main.go:274-280: session.MessageReactionAdd returns, the ackEmoji on the
\* message or not
PollReacts ==
    \E reactOk \in BOOLEAN :
        /\ Alive
        /\ poll.visit.pc = "react"
        /\ LET v == [poll.visit EXCEPT !.reactOk = reactOk]
               c == Callback(v.key, v.entry, v.t, v.resp, v.reactOk)
           IN  /\ discord' = ApplyReacts(discord, c.reacts, 1)
               /\ poll' = [poll EXCEPT !.visit = [v EXCEPT !.pc = "return"]]
               /\ last' = NoReturn
        /\ UNCHANGED <<globalConfig, stateUser, trackedMessages, now,
                       nextReceipt, hist, firstSend, dispatched, inflight,
                       mainAt>>

\* main.go:283-287: the callback deletes the acknowledged entry and returns
PollReturns ==
    /\ Alive
    /\ poll.visit.pc = "return"
    /\ LET v == poll.visit
       IN  VisitEnds(v, Callback(v.key, v.entry, v.t, v.resp, v.reactOk))
    /\ UNCHANGED <<globalConfig, stateUser, discord, now, nextReceipt,
                   firstSend, dispatched, inflight, mainAt>>

\* Range returns: the callback stopped it, or no entry that was there for
\* the whole pass is left to visit
PollEnd ==
    /\ Alive
    /\ poll.active
    /\ poll.visit = NoVisit
    /\ \/ poll.stopped
       \/ (poll.start \cap DOMAIN trackedMessages) \subseteq poll.visited
    /\ poll' = [poll EXCEPT !.active = FALSE]
    /\ last' = [kind |-> "pollend", start |-> poll.start,
                visited |-> poll.visited,
                left |-> DOMAIN trackedMessages]
    /\ UNCHANGED <<globalConfig, stateUser, discord, trackedMessages, now,
                   nextReceipt, hist, firstSend, dispatched, inflight,
                   mainAt>>

----------------------------------------------------------------------------
(* The system: the event handlers, the poller and the clock, with rules    *)
(* that let several emergency notifications be tracked at a time.          *)

Init == InitWith(TrackerConfigs)

Next ==
    \/ SessionReady
    \/ messageCreate(TrackerUsers)
    \/ messageUpdateLogic(TrackerUsers)
    \/ HandlerFetches(TrackerUsers)
    \/ HandlerSends(TrackerUsers)
    \/ HandlerStores
    \/ AdvanceClock
    \/ PollBegin
    \/ PollVisit
    \/ PollQueries(ReceiptResponses)
    \/ PollReacts
    \/ PollReturns
    \/ PollEnd

Spec == Init /\ [][Next]_vars

(* The event handlers alone, on rule sets and messages of many kinds.  The *)
(* poller never calls ProcessRules: what one event does is decided here.   *)

InitRouting == InitWith(RoutingConfigs)

NextRouting ==
    \/ SessionReady
    \/ messageCreate(RoutingUsers)
    \/ messageUpdateLogic(RoutingUsers)
    \/ HandlerFetches(RoutingUsers)
    \/ HandlerSends(RoutingUsers)
    \/ HandlerReacts(RoutingUsers)
    \/ HandlerStores
    \/ UserReaction

SpecRouting == InitRouting /\ [][NextRouting]_vars

(* checkRuleConditions on its own: the rule's conditions, the message and  *)
(* the session's user are drawn at the start, and the one step evaluates   *)
(* the conditions on the message.                                          *)

\* the conditions a rule can have
ConditionSets ==
    [ChannelID : {"", "c1", "c2"},
     MessageHasEmoji : {<<>>, <<"fire">>, <<"fire", "bell">>},
     ReactToAtMention : BOOLEAN,
     SpecificMentions : {<<>>, <<"u2">>, <<"u3", "r1">>},
     ContentIncludes : {<<>>, << Str(<<"a", "B">>) >>,
                        << Str(<<"b">>), Str(<<"A">>) >>,
                        << Str(<<"é">>) >>}]

\* the reactions a message can have: one entry per emoji
ReactionSets ==
    {{},
     {[Name |-> "fire", Me |-> FALSE]},
     {[Name |-> "fire", Me |-> TRUE]},
     {[Name |-> "bell", Me |-> FALSE]},
     {[Name |-> "fire", Me |-> FALSE], [Name |-> "bell", Me |-> FALSE]},
     {[Name |-> "fire", Me |-> TRUE], [Name |-> "bell", Me |-> FALSE]}}

\* the messages the conditions are evaluated on
EvaluatedMessages ==
    {Message("m1", "u1",
             [Content |-> content, Mentions |-> mentions,
              MentionRoles |-> roles], reactions) :
        content \in {Str(<<"b">>), Str(<<"A", "b">>), Str(<<"b", "a">>),
                     Str(<<"b", "É">>)},
        mentions \in {<<>>, <<BotID>>, <<"u2", BotID>>},
        roles \in {<<>>, <<"r1">>},
        reactions \in ReactionSets}

InitConditions ==
    /\ globalConfig \in
          {[PushoverAppKey |-> "appkey",
            Rules |-> <<[Name |-> "rule",
                         Conditions |-> conditions,
                         Actions |-> Act("grp", 0, "", <<>>)]>>] :
              conditions \in ConditionSets}
    /\ stateUser \in {"", BotID}
    /\ discord \in {[id \in MessageIDs |-> m] : m \in EvaluatedMessages}
    /\ trackedMessages = <<>>
    /\ now = 0
    /\ nextReceipt = 0
    /\ poll = [active |-> FALSE, start |-> {}, visited |-> {},
               stopped |-> FALSE, late |-> FALSE, visit |-> NoVisit]
    /\ hist = [k \in Receipts |-> NoHist]
    /\ firstSend = [id \in MessageIDs |-> 0]
    /\ dispatched = [id \in MessageIDs |->
                        [i \in 1..Len(globalConfig.Rules) |-> 0]]
    /\ inflight = EmptyBag
    /\ mainAt = "waiting"
    /\ last = [kind |-> "init"]

\* rules.go:23: checkRuleConditions is called on the message
EvaluateConditions ==
    /\ last.kind = "init"
    /\ last' = [kind |-> "conditions",
                result |-> checkRuleConditions(Delivered(discord["m1"]),
                               globalConfig.Rules[1].Conditions, stateUser)]
    /\ UNCHANGED <<globalConfig, stateUser, discord, trackedMessages, now,
                   nextReceipt, poll, hist, firstSend, dispatched,
                   inflight, mainAt>>

NextConditions == EvaluateConditions

SpecConditions == InitConditions /\ [][NextConditions]_vars

(* The handlers of all three events, reaction-add included, with users who *)
(* react with emojis that rules use as their reactionEmoji.                *)

InitReactionAdd == InitWith(RoutingConfigs)

NextReactionAdd ==
    \/ SessionReady
    \/ messageCreate(ReactionUsers)
    \/ messageUpdateLogic(ReactionUsers)
    \/ messageReactionAddLogic(ReactionUsers)
    \/ HandlerFetches(ReactionUsers)
    \/ HandlerSends(ReactionUsers)
    \/ HandlerReacts(ReactionUsers)

SpecReactionAdd == InitReactionAdd /\ [][NextReactionAdd]_vars

(* The handlers on a platform whose calls succeed, with the notifications  *)
(* sent counted for each message and rule.                                 *)

InitOverlap == InitWith(RoutingConfigs)

NextOverlap ==
    \/ SessionReady
    \/ messageCreate(OverlapUsers)
    \/ messageUpdateLogic(OverlapUsers)
    \/ HandlerFetches(OverlapUsers)
    \/ HandlerSends(OverlapUsers)
    \/ HandlerReacts(OverlapUsers)
    \/ HandlerStores

SpecOverlap == InitOverlap /\ [][NextOverlap]_vars

(* The process from start to exit: the handlers, the poller, the clock and *)
(* main, which waits for a signal, closes the session and returns.         *)

InitShutdown == InitWith({ConfigT})

NextShutdown ==
    \/ SessionReady
    \/ messageCreate(RegistryUsers)
    \/ messageUpdateLogic(RegistryUsers)
    \/ HandlerFetches(RegistryUsers)
    \/ HandlerSends(RegistryUsers)
    \/ HandlerStores
    \/ AdvanceClock
    \/ PollBegin
    \/ PollVisit
    \/ PollQueries(ReceiptDetails)
    \/ PollReacts
    \/ PollReturns
    \/ PollEnd
    \/ SignalReceived
    \/ MainReturns

SpecShutdown == InitShutdown /\ [][NextShutdown]_vars

(* The registration of emergency notifications: one emergency rule that    *)
(* matches every message and leaves no reaction, with an expireSeconds     *)
(* that is negative, zero or positive; the clock runs between the events   *)
(* and between the calls of a handler.                                     *)

\* the values of expireSeconds a configuration file can give
ExpireSettings == {-1, 0, 1, 2}

ExpiryConfigs ==
    {[PushoverAppKey |-> "appkey",
      Rules |-> <<[Name |-> "page",
                   Conditions |-> Cond("", <<>>, FALSE, <<>>, <<>>),
                   Actions |-> Act("grp", 2, "", Emerg("ok", expire, 30))]>>] :
        expire \in ExpireSettings}

InitExpiry == InitWith(ExpiryConfigs)

NextExpiry ==
    \/ SessionReady
    \/ messageCreate(TrackerUsers)
    \/ messageUpdateLogic(TrackerUsers)
    \/ HandlerFetches(TrackerUsers)
    \/ HandlerSends(TrackerUsers)
    \/ HandlerStores
    \/ AdvanceClock

SpecExpiry == InitExpiry /\ [][NextExpiry]_vars

(* The registry under handlers that suppress: the handlers, the poller and *)
(* the clock with an emergency rule that marks the messages it notified.   *)

InitRegistry == InitWith({ConfigU})

NextRegistry ==
    \/ SessionReady
    \/ messageCreate(RegistryUsers)
    \/ messageUpdateLogic(RegistryUsers)
    \/ HandlerFetches(RegistryUsers)
    \/ HandlerSends(RegistryUsers)
    \/ HandlerReacts(RegistryUsers)
    \/ HandlerStores
    \/ AdvanceClock
    \/ PollBegin
    \/ PollVisit
    \/ PollQueries(ReceiptDetails)
    \/ PollReacts
    \/ PollReturns
    \/ PollEnd

SpecRegistry == InitRegistry /\ [][NextRegistry]_vars

(* The tracker under fair scheduling: the ticker keeps firing, a pass over *)
(* the registry goes on to its end, the calls of the poller return, and    *)
(* time passes.  A handler registers its notification whenever it gets to  *)
(* that step, whatever the time.                                           *)

InitFair == InitWith({ConfigT})

NextFair ==
    \/ SessionReady
    \/ messageCreate(RegistryUsers)
    \/ messageUpdateLogic(RegistryUsers)
    \/ HandlerFetches(RegistryUsers)
    \/ HandlerSends(RegistryUsers)
    \/ HandlerStores
    \/ AdvanceClock
    \/ PollBegin
    \/ PollVisit
    \/ PollQueries(ReceiptResponses)
    \/ PollReacts
    \/ PollReturns
    \/ PollEnd

\* main.go:235-240: the ticker fires every five seconds, Range calls the
\* callback for the entries one after the other and returns, and the calls
\* of the callback return (the HTTP clients give up after a time)
SpecFair ==
    /\ InitFair
    /\ [][NextFair]_vars
    /\ WF_vars(AdvanceClock)
    /\ WF_vars(PollBegin)
    /\ WF_vars(PollVisit)
    /\ WF_vars(PollQueries(ReceiptResponses))
    /\ WF_vars(PollReacts)
    /\ WF_vars(PollReturns)
    /\ WF_vars(PollEnd)

----------------------------------------------------------------------------
(* What one handled event did: properties of the ProcessRules call         *)

Handled == last.kind \in {"create", "edit"} /\ last.handled

Polled == last.kind = "poll"

\* the rule the last handled event matched
MatchedRule == globalConfig.Rules[last.fx.matched[1]]

FirstOf(S) == CHOOSE i \in S : \A j \in S : i <= j

\* C1: ProcessRules evaluates the rules in configured order and triggers the
\* actions of exactly the first rule whose conditions hold; no send, no
\* reaction-add and no registration is made for any later rule, and none at
\* all when no rule matches.
C1_FirstMatchOnly ==
    Handled =>
        LET fx == last.fx IN
        /\ fx.evaluated = [i \in 1..Len(fx.evaluated) |-> i]
        /\ IF last.matching = {}
              THEN /\ fx.matched = <<>>
                   /\ Len(fx.evaluated) = Len(globalConfig.Rules)
                   /\ fx.sends = <<>> /\ fx.reacts = <<>> /\ fx.stores = <<>>
              ELSE /\ fx.matched = <<FirstOf(last.matching)>>
                   /\ Len(fx.evaluated) = FirstOf(last.matching)
                   /\ Len(fx.sends) <= 1
                   /\ Len(fx.reacts) <= 1
                   /\ Len(fx.stores) <= 1
                   /\ \A n \in DOMAIN fx.sends :
                        /\ fx.sends[n].rule = fx.matched[1]
                        /\ fx.sends[n].Destination =
                               MatchedRule.Actions.PushoverDestination
                   /\ \A n \in DOMAIN fx.reacts :
                        fx.reacts[n].Emoji = MatchedRule.Actions.ReactionEmoji
                   /\ \A n \in DOMAIN fx.stores :
                        /\ MatchedRule.Actions.Emergency # <<>>
                        /\ fx.stores[n].AckEmoji =
                               MatchedRule.Actions.Emergency[1].AckEmoji

\* a message that matches several rules was handled, with a send and a
\* reaction-add for the first of them
C1_Witness ==
    /\ Handled
    /\ Cardinality(last.matching) >= 2
    /\ last.fx.sends # <<>>
    /\ last.fx.reacts # <<>>

\* the suppression test as C2 states it, on the baseline the handler passed
Skip == /\ last.baseline # MaxInt32
        /\ MatchedRule.Actions.Priority >= last.baseline

\* C2: for a matched rule with a destination the send is skipped exactly when
\* the baseline is not the sentinel and the rule's priority is numerically
\* greater than or equal to it; a skipped send still has the rule's
\* reactionEmoji requested.
C2_SuppressionRule ==
    (Handled /\ last.fx.matched # <<>>
        /\ MatchedRule.Actions.PushoverDestination # "") =>
        /\ (last.fx.sends = <<>>) <=> Skip
        /\ (Skip /\ MatchedRule.Actions.ReactionEmoji # "") =>
              /\ Len(last.fx.reacts) = 1
              /\ last.fx.reacts[1].Emoji = MatchedRule.Actions.ReactionEmoji
              /\ last.fx.reacts[1].MessageID = last.msg

\* an edit matched a rule strictly less urgent than the baseline: no send,
\* the reaction requested
C2_Witness ==
    /\ Handled
    /\ last.fx.matched # <<>>
    /\ MatchedRule.Actions.PushoverDestination # ""
    /\ last.baseline # MaxInt32
    /\ MatchedRule.Actions.Priority > last.baseline
    /\ last.fx.sends = <<>>
    /\ Len(last.fx.reacts) = 1

\* C3: when the handler of the create event of a message has returned,
\* having sent the notification of a rule and had that rule's reactionEmoji
\* added, an edit that comes after it and whose first matching rule is that
\* rule sends nothing and requests the rule's reactionEmoji again.
C3_EditDoesNotResend ==
    (Handled /\ last.kind = "edit" /\ last.fx.matched # <<>>
        /\ last.first = last.fx.matched[1]) =>
        /\ last.fx.sends = <<>>
        /\ last.fx.stores = <<>>
        /\ Len(last.fx.reacts) = 1
        /\ last.fx.reacts[1].Emoji = MatchedRule.Actions.ReactionEmoji
        /\ last.fx.reacts[1].MessageID = last.msg

\* an edit matched the rule that the create event had sent and marked
C3_Witness ==
    /\ Handled
    /\ last.kind = "edit"
    /\ last.fx.matched # <<>>
    /\ last.first = last.fx.matched[1]

\* the send of the last handled event that C4 says is tracked
TrackedSends ==
    {n \in DOMAIN last.fx.sends :
        /\ ~last.fx.sends[n].err
        /\ last.fx.sends[n].receipt # ""
        /\ globalConfig.Rules[last.fx.sends[n].rule].Actions.Priority = 2
        /\ globalConfig.Rules[last.fx.sends[n].rule].Actions.Emergency # <<>>}

\* C4: ProcessRules adds to the registry exactly when the send was called
\* for a priority 2 rule with emergency parameters and came back without
\* error and with a receipt; it then adds one entry, under the receipt, with
\* the message's id and channel and the rule's ackEmoji, and every other
\* event adds nothing.  No event changes an entry that is there.
C4_TrackedExactlyWhenReceipt ==
    last.kind \in {"create", "edit"} =>
        /\ last.kept
        /\ (last.added # {}) <=> (TrackedSends # {})
        /\ \A n \in TrackedSends :
             LET receipt == last.fx.sends[n].receipt
                 rule == globalConfig.Rules[last.fx.sends[n].rule]
             IN  /\ last.added = {receipt}
                 /\ receipt \in DOMAIN trackedMessages
                 /\ trackedMessages[receipt].PushoverReceiptID = receipt
                 /\ trackedMessages[receipt].DiscordMessageID = last.msg
                 /\ trackedMessages[receipt].DiscordChannelID = ChannelOf(last.msg)
                 /\ trackedMessages[receipt].AckEmoji =
                        rule.Actions.Emergency[1].AckEmoji

\* an emergency send came back with a receipt and its entry is in the
\* registry
C4_Witness ==
    /\ Handled
    /\ TrackedSends # {}
    /\ last.added # {}

----------------------------------------------------------------------------
(* What the poller did with one entry, and what became of every receipt    *)

\* the one reaction-add C5 expects for an acknowledged entry
AckReaction(entry) ==
    IF entry.AckEmoji = "" THEN <<>>
    ELSE <<[ChannelID |-> entry.DiscordChannelID,
            MessageID |-> entry.DiscordMessageID,
            Emoji |-> entry.AckEmoji]>>

\* the reaction-add calls of the last callback, without their outcome
RequestedReacts ==
    [n \in DOMAIN last.reacts |->
        [ChannelID |-> last.reacts[n].ChannelID,
         MessageID |-> last.reacts[n].MessageID,
         Emoji |-> last.reacts[n].Emoji]]

\* C5 as stated: an unexpired entry whose receipt query returns without
\* error and reports acknowledged gets one reaction-add with its ackEmoji
\* (none if that is empty) and is removed.
C5_AckedAsStated ==
    (Polled /\ last.queried /\ ~last.resp.Err /\ last.resp.Acknowledged) =>
        /\ RequestedReacts = AckReaction(last.entry)
        /\ last.key \notin DOMAIN trackedMessages

\* C5: an unexpired entry whose receipt query returns without error, with
\* status 1 and acknowledged gets one reaction-add with its ackEmoji on its
\* message (none if the ackEmoji is empty) and is removed, whether or not
\* the reaction-add succeeds; the callback never runs on a receipt whose
\* tracking has ended.
C5_AckedWithStatusOne ==
    /\ (Polled /\ last.queried /\ ~last.resp.Err /\ last.resp.Status = 1
            /\ last.resp.Acknowledged) =>
          /\ RequestedReacts = AckReaction(last.entry)
          /\ last.key \notin DOMAIN trackedMessages
          /\ hist[last.key].terminal = 1
    /\ Polled => last.prior.terminal = 0

\* an acknowledged entry with an ackEmoji was visited and the reaction-add
\* failed
C5_Witness ==
    /\ Polled
    /\ last.queried
    /\ ~last.resp.Err
    /\ last.resp.Status = 1
    /\ last.resp.Acknowledged
    /\ last.entry.AckEmoji # ""
    /\ ~last.reacts[1].ok

\* C6 as stated: an entry whose callback reads a time at or after its
\* expiry time is removed without a query and without a reaction-add.
C6_ExpiredAtOrAfter ==
    (Polled /\ last.t >= last.entry.ExpiryTime) =>
        /\ ~last.queried
        /\ last.reacts = <<>>
        /\ last.key \notin DOMAIN trackedMessages

\* C6: an entry whose callback reads a time strictly after its expiry time
\* is removed without a query and without a reaction-add; an entry whose
\* callback reads its expiry time or a time before it is queried.
C6_ExpiredStrictlyAfter ==
    /\ (Polled /\ last.t > last.entry.ExpiryTime) =>
          /\ ~last.queried
          /\ last.reacts = <<>>
          /\ last.key \notin DOMAIN trackedMessages
    /\ (Polled /\ last.t <= last.entry.ExpiryTime) => last.queried

\* an entry was visited after its expiry time
C6_Witness ==
    /\ Polled
    /\ last.t > last.entry.ExpiryTime
    /\ last.key \notin DOMAIN trackedMessages

\* the entry of this visit was visited before, and the receipt query of that
\* visit returned an error
ErredBefore == Polled /\ last.prior.erred

\* when the receipt query returns an error the entry stays as it was and no
\* reaction-add call is made
ErrorKeepsEntry ==
    (Polled /\ last.queried /\ last.resp.Err) =>
        /\ last.key \in DOMAIN trackedMessages
        /\ trackedMessages[last.key] = last.entry
        /\ last.reacts = <<>>
        /\ hist[last.key].terminal = 0

\* C7 as stated: when the receipt query returns an error for an unexpired
\* entry, the entry stays as it was, no reaction-add call is made, and the
\* entry is queried again on a later tick: the visit that follows queries
\* it.
C7_QueriedAgainAsStated ==
    /\ ErrorKeepsEntry
    /\ ErredBefore => last.queried

\* C7: when the receipt query returns an error for an unexpired entry, the
\* entry stays as it was and no reaction-add call is made; the visit that
\* follows queries the entry again when it has still not expired, and
\* removes it without a query and without a reaction-add call when it has
\* expired by then.
C7_QueryErrorKeepsEntry ==
    /\ ErrorKeepsEntry
    /\ ErredBefore => (last.queried <=> ~Expired(last.t, last.entry))
    /\ (ErredBefore /\ ~last.queried) =>
          /\ last.key \notin DOMAIN trackedMessages
          /\ last.reacts = <<>>

\* the query of an entry with an ackEmoji erred, and on the visit of a later
\* pass the entry, still unexpired, was queried again
C7_Witness ==
    /\ ErredBefore
    /\ last.key \in poll.start
    /\ last.entry.AckEmoji # ""
    /\ ~Expired(last.t, last.entry)
    /\ last.queried

\* C8: when the receipt query returns without error and with a status other
\* than 1 the entry is removed and no reaction-add is made, acknowledged or
\* not.
C8_FailedStatusRemoves ==
    (Polled /\ last.queried /\ ~last.resp.Err /\ last.resp.Status # 1) =>
        /\ last.key \notin DOMAIN trackedMessages
        /\ last.reacts = <<>>

\* a response with a status other than 1 that says acknowledged, for an
\* entry with an ackEmoji
C8_Witness ==
    /\ Polled
    /\ last.queried
    /\ ~last.resp.Err
    /\ last.resp.Status # 1
    /\ last.resp.Acknowledged
    /\ last.entry.AckEmoji # ""
    /\ last.key \notin DOMAIN trackedMessages

\* C9: a receipt is registered at most once and the poller ends its
\* tracking at most once; from then on it is not in the registry, so that no
\* later visit queries it or reacts for it.
C9_RemovedOnceNeverBack ==
    \A k \in Receipts :
        /\ hist[k].stored <= 1
        /\ hist[k].terminal <= 1
        /\ hist[k].terminal <= hist[k].stored
        /\ hist[k].terminal = 1 => k \notin DOMAIN trackedMessages
        /\ (hist[k].stored = 1 /\ hist[k].terminal = 0) =>
               k \in DOMAIN trackedMessages

\* a pass ended that began after the tracking of a receipt had ended, while
\* another receipt was tracked
C9_Witness ==
    /\ last.kind = "pollend"
    /\ last.visited # {}
    /\ \E k \in Receipts :
        /\ hist[k].terminal = 1
        /\ k \notin last.visited

\* C10: when a pass ends every entry that was in the registry when it began
\* has been visited, and an entry stored during the pass is in the registry
\* unless a visit ended its tracking; within a pass no entry is visited that is not
\* tracked, and every visit is of an entry not yet visited in the pass.
C10_PassCoversRegistry ==
    /\ last.kind = "pollend" =>
          /\ last.start \subseteq last.visited
          /\ \A k \in Receipts :
                hist[k].stored = 1 => (k \in last.left \/ hist[k].terminal = 1)
    /\ poll.active =>
          \A k \in poll.start : k \in poll.visited \/ k \in DOMAIN trackedMessages
    /\ poll.visited \subseteq {k \in Receipts : hist[k].stored = 1}

\* a pass over a non-empty registry ended during which an entry was stored
C10_Witness ==
    /\ last.kind = "pollend"
    /\ last.start # {}
    /\ (last.left \cup last.visited) \ last.start # {}

----------------------------------------------------------------------------
(* What checkRuleConditions returns, stated on the rule and the message    *)

Evaluated == last.kind = "conditions"

\* the conditions and the message of the evaluation
TheConditions == globalConfig.Rules[1].Conditions

TheMessage == discord["m1"]

Elems(seq) == {seq[i] : i \in 1..Len(seq)}

\* a reaction that counts for the rule: not the bot's own when the rule
\* sets reactToAtMention
Qualifying(r) == ~(TheConditions.ReactToAtMention /\ r.Me)

SameLetter(x, y) ==
    \/ x = y
    \/ {x, y} = {CodePoint["a"], CodePoint["A"]}
    \/ {x, y} = {CodePoint["b"], CodePoint["B"]}
    \/ {x, y} = {CodePoint["é"], CodePoint["É"]}

\* keyword occurs in content, letter case aside
InsensitiveSubstring(keyword, content) ==
    \E off \in 0..(Len(content) - Len(keyword)) :
        \A j \in 1..Len(keyword) : SameLetter(content[off + j], keyword[j])

ChannelSucceeds == TheMessage.ChannelID = TheConditions.ChannelID

AllEmojisSucceed ==
    \A e \in Elems(TheConditions.MessageHasEmoji) :
        \E r \in TheMessage.Reactions : r.Name = e /\ Qualifying(r)

AnyEmojiSucceeds ==
    \E e \in Elems(TheConditions.MessageHasEmoji) :
        \E r \in TheMessage.Reactions : r.Name = e /\ Qualifying(r)

KeywordsSucceed ==
    \A k \in Elems(TheConditions.ContentIncludes) :
        InsensitiveSubstring(k, TheMessage.Content)

AtMentionSucceeds ==
    /\ stateUser # ""
    /\ stateUser \in Elems(TheMessage.Mentions)

SpecificMentionSucceeds ==
    Elems(TheConditions.SpecificMentions)
        \cap (Elems(TheMessage.Mentions) \cup Elems(TheMessage.MentionRoles)) # {}

\* C11 as stated: with a non-empty messageHasEmoji list and the other
\* conditions holding, checkRuleConditions returns true exactly when at
\* least one listed emoji has a qualifying reaction on the message (ANY-of).
C11_AnyListedEmoji ==
    (Evaluated /\ TheConditions.MessageHasEmoji # <<>>
        /\ (TheConditions.ChannelID # "" => ChannelSucceeds)
        /\ (TheConditions.ContentIncludes # <<>> => KeywordsSucceed)
        /\ (TheConditions.ReactToAtMention => AtMentionSucceeds)
        /\ (TheConditions.SpecificMentions # <<>> => SpecificMentionSucceeds)) =>
        (last.result <=> AnyEmojiSucceeds)

\* two emojis are listed, one of them has a reaction of another user, no
\* other condition is set, and the rule does not match
C11_Witness ==
    /\ Evaluated
    /\ TheConditions = [ChannelID |-> "", MessageHasEmoji |-> <<"fire", "bell">>,
                        ReactToAtMention |-> FALSE, SpecificMentions |-> <<>>,
                        ContentIncludes |-> <<>>]
    /\ TheMessage.Reactions = {[Name |-> "fire", Me |-> FALSE]}
    /\ ~last.result

\* C12: checkRuleConditions returns true exactly when every active condition
\* succeeds; a condition that is not set has no influence, and a rule
\* without conditions matches every message.
C12_AllActiveConditions ==
    Evaluated =>
        /\ last.result <=>
              /\ TheConditions.ChannelID # "" => ChannelSucceeds
              /\ TheConditions.MessageHasEmoji # <<>> => AllEmojisSucceed
              /\ TheConditions.ContentIncludes # <<>> => KeywordsSucceed
              /\ TheConditions.ReactToAtMention => AtMentionSucceeds
              /\ TheConditions.SpecificMentions # <<>> => SpecificMentionSucceeds
        /\ (/\ TheConditions.ChannelID = ""
            /\ TheConditions.MessageHasEmoji = <<>>
            /\ TheConditions.ContentIncludes = <<>>
            /\ ~TheConditions.ReactToAtMention
            /\ TheConditions.SpecificMentions = <<>>) => last.result

\* the channel and the mention conditions succeed, the keyword condition
\* alone fails, the emoji condition is not set on a message with reactions:
\* no match
C12_Witness ==
    /\ Evaluated
    /\ TheConditions.ChannelID # "" /\ ChannelSucceeds
    /\ TheConditions.SpecificMentions # <<>> /\ SpecificMentionSucceeds
    /\ TheConditions.ContentIncludes # <<>> /\ ~KeywordsSucceed
    /\ TheConditions.MessageHasEmoji = <<>> /\ TheMessage.Reactions # {}
    /\ ~TheConditions.ReactToAtMention
    /\ ~last.result

\* C13: with a non-empty contentIncludes list and the other conditions
\* holding, checkRuleConditions returns true exactly when every keyword is a
\* substring of the body, letter case aside.
C13_EveryKeyword ==
    (Evaluated /\ TheConditions.ContentIncludes # <<>>
        /\ ChannelIDPasses(Delivered(TheMessage), TheConditions)
        /\ MessageHasEmojiPasses(Delivered(TheMessage), TheConditions)
        /\ ReactToAtMentionPasses(Delivered(TheMessage), TheConditions, stateUser)
        /\ SpecificMentionsPasses(Delivered(TheMessage), TheConditions)) =>
        (last.result <=> KeywordsSucceed)

\* a keyword that differs from the body in letter case only is found, and
\* the rule matches
C13_Witness ==
    /\ Evaluated
    /\ TheConditions.ContentIncludes = << Str(<<"a", "B">>) >>
    /\ TheMessage.Content = Str(<<"A", "b">>)
    /\ last.result

\* C14: a rule with reactToAtMention matches only a message whose user
\* mentions hold the bot's user id, and matches no message while the
\* session's user is not known.
C14_AtMentionFailsClosed ==
    (Evaluated /\ TheConditions.ReactToAtMention) =>
        /\ last.result => (stateUser # "" /\ stateUser \in Elems(TheMessage.Mentions))
        /\ stateUser = "" => ~last.result

\* the message mentions the bot, no other condition is set, the session's
\* user is not known: no match
C14_Witness ==
    /\ Evaluated
    /\ TheConditions = [ChannelID |-> "", MessageHasEmoji |-> <<>>,
                        ReactToAtMention |-> TRUE, SpecificMentions |-> <<>>,
                        ContentIncludes |-> <<>>]
    /\ BotID \in Elems(TheMessage.Mentions)
    /\ stateUser = ""
    /\ ~last.result

\* C15: with a non-empty specificMentions list and the other conditions
\* holding, checkRuleConditions returns true exactly when a listed
\* identifier is among the message's user mentions or its role mentions.
C15_AnySpecificMention ==
    (Evaluated /\ TheConditions.SpecificMentions # <<>>
        /\ ChannelIDPasses(Delivered(TheMessage), TheConditions)
        /\ MessageHasEmojiPasses(Delivered(TheMessage), TheConditions)
        /\ ContentIncludesPasses(Delivered(TheMessage), TheConditions)
        /\ ReactToAtMentionPasses(Delivered(TheMessage), TheConditions, stateUser)) =>
        (last.result <=> SpecificMentionSucceeds)

\* the one listed identifier on the message is a role mention, and the rule
\* matches
C15_Witness ==
    /\ Evaluated
    /\ TheConditions.SpecificMentions = <<"u3", "r1">>
    /\ TheMessage.MentionRoles = <<"r1">>
    /\ Elems(TheMessage.Mentions) \cap {"u3", "r1"} = {}
    /\ last.result

----------------------------------------------------------------------------
(* The reaction of the matched rule, and which events reach the rules      *)

\* the reaction-add calls of the last handled event, without their outcome
ReactionCalls ==
    [n \in DOMAIN last.fx.reacts |->
        [ChannelID |-> last.fx.reacts[n].ChannelID,
         MessageID |-> last.fx.reacts[n].MessageID,
         Emoji |-> last.fx.reacts[n].Emoji]]

\* the one reaction-add call C16 expects for the matched rule
RuleReaction ==
    IF MatchedRule.Actions.ReactionEmoji = "" THEN <<>>
    ELSE <<[ChannelID |-> ChannelOf(last.msg),
            MessageID |-> last.msg,
            Emoji |-> MatchedRule.Actions.ReactionEmoji]>>

\* the last event was dropped: no rule evaluated, no call made, the
\* registry as it was
Dropped ==
    /\ ~last.handled
    /\ last.fx = NoEffects
    /\ last.added = {}
    /\ last.kept

\* C16: for a matched rule ProcessRules makes one reaction-add call with the
\* rule's reactionEmoji on the source message when the reactionEmoji is not
\* empty, whatever became of the send, and none when it is empty.
C16_ReactionWhateverTheSend ==
    (Handled /\ last.fx.matched # <<>>) => ReactionCalls = RuleReaction

\* the send of the matched rule failed and the rule's reaction was requested
C16_Witness ==
    /\ Handled
    /\ last.fx.matched # <<>>
    /\ Len(last.fx.sends) = 1
    /\ last.fx.sends[1].err
    /\ Len(last.fx.reacts) = 1

\* C17: when the matched rule has no destination the send is not called and
\* the event does not count as a suppression, whatever the baseline; the
\* rule's reaction is requested and nothing is registered.
C17_NoDestinationNoSend ==
    (Handled /\ last.fx.matched # <<>>
        /\ MatchedRule.Actions.PushoverDestination = "") =>
        /\ last.fx.sends = <<>>
        /\ last.fx.suppressed = <<>>
        /\ last.fx.stores = <<>>
        /\ last.added = {}
        /\ ReactionCalls = RuleReaction

\* an edit matched a rule without destination under a baseline at which a
\* rule with a destination would have been suppressed
C17_Witness ==
    /\ Handled
    /\ last.fx.matched # <<>>
    /\ MatchedRule.Actions.PushoverDestination = ""
    /\ last.baseline # MaxInt32
    /\ MatchedRule.Actions.Priority >= last.baseline
    /\ Len(last.fx.reacts) = 1

\* C18: an event on a message whose author is the bot is dropped before the
\* rules are evaluated, for an edit whether the event names the author (the
\* message is then not fetched) or only the fetched message does.
C18_OwnMessagesDropped ==
    (last.kind \in {"create", "edit"}
        /\ discord[last.msg].AuthorID = BotID) => Dropped

\* an edit of a message of the bot whose event did not name the author: the
\* message was fetched, and the event dropped
C18_Witness ==
    /\ last.kind = "edit"
    /\ stateUser = BotID
    /\ discord[last.msg].AuthorID = BotID
    /\ last.fetched
    /\ last.fetchOk
    /\ Dropped

\* C19: on an edit the rule that acts is the first whose conditions hold on
\* the platform's current message, reactions included, and an edit whose
\* fetch fails is dropped.
C19_EditEvaluatesFullMessage ==
    /\ (Handled /\ last.kind = "edit") =>
          /\ last.fetched
          /\ last.fetchOk
          /\ last.fx.matched = IF last.matching = {} THEN <<>>
                               ELSE <<FirstOf(last.matching)>>
    /\ (last.kind = "edit" /\ last.fetched /\ ~last.fetchOk) => Dropped

\* an edit matched a rule on a reaction, which the payload of the event does
\* not list
C19_Witness ==
    /\ Handled
    /\ last.kind = "edit"
    /\ last.fx.matched # <<>>
    /\ MatchedRule.Conditions.MessageHasEmoji # <<>>

\* C20: a create event is evaluated with the sentinel as baseline: a matched
\* rule with a destination is sent, never suppressed, whatever reactions the
\* delivered message lists.
C20_CreateNeverSuppressed ==
    (Handled /\ last.kind = "create") =>
        /\ last.baseline = MaxInt32
        /\ (last.fx.matched # <<>>
                /\ MatchedRule.Actions.PushoverDestination # "") =>
              /\ Len(last.fx.sends) = 1
              /\ last.fx.suppressed = <<>>

\* a create event whose message already listed the bot's reaction of the
\* matched rule (the handler's own reaction-add failed): the rule was sent
C20_Witness ==
    /\ Handled
    /\ last.kind = "create"
    /\ last.fx.matched # <<>>
    /\ Len(last.fx.sends) = 1
    /\ Len(last.fx.reacts) = 1
    /\ ~last.fx.reacts[1].ok
    /\ [Name |-> MatchedRule.Actions.ReactionEmoji, Me |-> TRUE]
           \in discord[last.msg].Reactions

----------------------------------------------------------------------------
(* An entry that is neither acknowledged nor failed nor expired           *)

\* the last visit found an unexpired entry whose receipt the service reports
\* as successfully sent and not acknowledged
PendingVisit ==
    /\ Polled
    /\ ~Expired(last.t, last.entry)
    /\ last.queried
    /\ ~last.resp.Err
    /\ last.resp.Status = 1
    /\ ~last.resp.Acknowledged

\* C30: a visit of an unexpired entry whose receipt query returns without
\* error, with status 1 and not acknowledged leaves the entry in the registry
\* as it was and makes no reaction-add call; the tracking of the receipt has
\* not ended, however many such visits the entry has had.
C30_PendingStaysTracked ==
    PendingVisit =>
        /\ last.key \in DOMAIN trackedMessages
        /\ trackedMessages[last.key] = last.entry
        /\ last.reacts = <<>>
        /\ hist[last.key].terminal = 0
        /\ hist[last.key].stored = 1

\* an entry with an ackEmoji, at its expiry time, was reported pending in a
\* pass that began with the entry in the registry
C30_Witness ==
    /\ PendingVisit
    /\ last.key \in poll.start
    /\ last.entry.AckEmoji # ""
    /\ last.t = last.entry.ExpiryTime
    /\ last.key \in DOMAIN trackedMessages

----------------------------------------------------------------------------
(* Emergency rules: misconfiguration, and the expiry time of an entry      *)

\* the last handled event matched a rule of priority 2 that has no emergency
\* parameters
MatchedWithoutEmergency ==
    /\ Handled
    /\ last.fx.matched # <<>>
    /\ MatchedRule.Actions.Priority = 2
    /\ MatchedRule.Actions.Emergency = <<>>

\* C23: a matched rule of priority 2 without emergency parameters is
\* processed like any other rule: unless suppressed, its notification is
\* sent, at high priority and not as an emergency; the send returns no
\* receipt, nothing is registered, and the rule's reaction is requested.
C23_MissingEmergencyDegrades ==
    MatchedWithoutEmergency =>
        /\ (MatchedRule.Actions.PushoverDestination # "" /\ ~Skip) =>
              /\ Len(last.fx.sends) = 1
              /\ last.fx.sends[1].Priority = PriorityHigh
              /\ last.fx.sends[1].Priority # PriorityEmergency
              /\ last.fx.sends[1].receipt = ""
        /\ last.fx.stores = <<>>
        /\ last.added = {}
        /\ last.kept
        /\ ReactionCalls = RuleReaction

\* such a rule was matched, its notification sent without error and its
\* reaction added
C23_Witness ==
    /\ MatchedWithoutEmergency
    /\ Len(last.fx.sends) = 1
    /\ ~last.fx.sends[1].err
    /\ Len(last.fx.reacts) = 1
    /\ last.fx.reacts[1].ok

\* the expireSeconds of the rule the last handled event matched
MatchedExpire == MatchedRule.Actions.Emergency[1].Expire

\* C24: the ExpiryTime of an entry is the time of its registration plus the
\* rule's expireSeconds when that is positive, and plus 3600 seconds when it
\* is zero or negative.
C24_ExpiryFromExpireSeconds ==
    (Handled /\ last.added # {}) =>
        \A k \in last.added :
            /\ MatchedExpire > 0 =>
                  trackedMessages[k].ExpiryTime = now + MatchedExpire
            /\ MatchedExpire <= 0 =>
                  trackedMessages[k].ExpiryTime = now + 3600

\* an entry was registered, after the clock had advanced, by a rule whose
\* expireSeconds is zero
C24_Witness ==
    /\ Handled
    /\ last.added # {}
    /\ now > 0
    /\ MatchedExpire = 0
    /\ \A k \in last.added : trackedMessages[k].ExpiryTime > 3600

----------------------------------------------------------------------------
(* The bot's own reactions under messageHasEmoji                           *)

\* every condition of the rule other than messageHasEmoji succeeds
OthersSucceed ==
    /\ (TheConditions.ChannelID # "" => ChannelSucceeds)
    /\ (TheConditions.ContentIncludes # <<>> => KeywordsSucceed)
    /\ (TheConditions.ReactToAtMention => AtMentionSucceeds)
    /\ (TheConditions.SpecificMentions # <<>> => SpecificMentionSucceeds)

\* the reactions of the message whose emoji the rule lists
ListedReactions ==
    {r \in TheMessage.Reactions :
        r.Name \in Elems(TheConditions.MessageHasEmoji)}

\* C29 as stated: the bot's own reaction is left out only for a rule that
\* sets reactToAtMention.  Without reactToAtMention a reaction with Me=true
\* and a listed emoji satisfies messageHasEmoji; with it, listed emojis
\* carried only by Me=true reactions do not, while a reaction with Me=false
\* and a listed emoji does, whatever other reactions the message has.
C29_BotReactionExclusion ==
    (Evaluated /\ TheConditions.MessageHasEmoji # <<>>) =>
        /\ (~TheConditions.ReactToAtMention /\ OthersSucceed
                /\ \E r \in ListedReactions : r.Me) => last.result
        /\ (TheConditions.ReactToAtMention
                /\ \A r \in ListedReactions : r.Me) => ~last.result
        /\ (TheConditions.ReactToAtMention /\ OthersSucceed
                /\ \E r \in ListedReactions : ~r.Me) => last.result

\* a rule with reactToAtMention lists two emojis; the message mentions the
\* bot and has the bot's reaction with one of them and another user's with
\* the other, and the rule does not match
C29_Witness ==
    /\ Evaluated
    /\ TheConditions = [ChannelID |-> "", MessageHasEmoji |-> <<"fire", "bell">>,
                        ReactToAtMention |-> TRUE, SpecificMentions |-> <<>>,
                        ContentIncludes |-> <<>>]
    /\ stateUser = BotID
    /\ BotID \in Elems(TheMessage.Mentions)
    /\ TheMessage.Reactions = {[Name |-> "fire", Me |-> TRUE],
                               [Name |-> "bell", Me |-> FALSE]}
    /\ ~last.result

----------------------------------------------------------------------------
(* Suppression and the priority scale of the notification service          *)

\* the last handled event matched a rule that has a destination, under a
\* baseline other than the sentinel
MatchedUnderBaseline ==
    /\ Handled
    /\ last.fx.matched # <<>>
    /\ MatchedRule.Actions.PushoverDestination # ""
    /\ last.baseline # MaxInt32

\* C28 as stated: on the scale of the README (-2 lowest, 2 emergency, a
\* larger number is a higher priority) a send is suppressed only when the
\* baseline is of higher or equal priority; a matched rule of higher
\* priority than the baseline is sent.
C28_HigherPriorityIsSent ==
    /\ (MatchedUnderBaseline /\ MatchedRule.Actions.Priority > last.baseline) =>
          /\ Len(last.fx.sends) = 1
          /\ last.fx.suppressed = <<>>
    /\ (Handled /\ last.fx.suppressed # <<>>) =>
          /\ last.baseline # MaxInt32
          /\ last.baseline >= MatchedRule.Actions.Priority

\* an emergency rule matched an edited message whose baseline is 0, the
\* priority of the rule that had reacted before, and nothing was sent
C28_Witness ==
    /\ MatchedUnderBaseline
    /\ last.kind = "edit"
    /\ MatchedRule.Actions.Priority = PriorityEmergency
    /\ MatchedRule.Actions.Emergency # <<>>
    /\ last.baseline = PriorityNormal
    /\ last.fx.sends = <<>>
    /\ last.fx.suppressed # <<>>

----------------------------------------------------------------------------
(* The baseline of edit and reaction-add events, and the reaction-add      *)
(* events of the bot's own reactions                                       *)

\* the last event was an edit or another user's reaction-add that reached
\* ProcessRules
Reevaluated == last.kind \in {"edit", "reactionadd"} /\ last.handled

\* the priorities of the rules whose reactionEmoji names a reaction that the
\* bot has on the fetched message
NotifiedPriorities ==
    {globalConfig.Rules[i].Actions.Priority :
        i \in {i \in 1..Len(globalConfig.Rules) :
                 \E r \in last.reactions :
                    /\ r.Me
                    /\ r.Name = globalConfig.Rules[i].Actions.ReactionEmoji}}

\* C21: on an edit or reaction-add event the baseline passed to ProcessRules
\* is the numerically smallest priority among the rules whose reactionEmoji
\* is the emoji of a reaction with Me=true on the fetched message, and the
\* sentinel when there is no such rule and reaction; reactions of other
\* users and reactions of the bot that are no rule's reactionEmoji count
\* for nothing.
C21_BaselineFromBotReactions ==
    Reevaluated =>
        IF NotifiedPriorities = {}
            THEN last.baseline = MaxInt32
            ELSE /\ last.baseline \in NotifiedPriorities
                 /\ \A p \in NotifiedPriorities : last.baseline <= p

\* the fetched message had the bot's reactions of two rules of differing
\* priority, a reaction of the bot that is no rule's reactionEmoji, and
\* another user's reaction with the reactionEmoji of a rule more urgent than
\* both
C21_Witness ==
    /\ Reevaluated
    /\ Cardinality(NotifiedPriorities) >= 2
    /\ \E r \in last.reactions :
          /\ r.Me
          /\ \A i \in 1..Len(globalConfig.Rules) :
                r.Name # globalConfig.Rules[i].Actions.ReactionEmoji
    /\ \E r \in last.reactions, i \in 1..Len(globalConfig.Rules) :
          /\ ~r.Me
          /\ r.Name = globalConfig.Rules[i].Actions.ReactionEmoji
          /\ globalConfig.Rules[i].Actions.Priority < last.baseline

\* C22: a reaction-add event whose reactor is the bot is ignored: no fetch
\* of the message, no rule evaluated, no send, no reaction-add call, nothing
\* registered.  A reaction-add event of another user has the message
\* fetched and, when the fetch succeeds and the author is not the bot, the
\* rules run on the fetched message.
C22_OwnReactionsIgnored ==
    /\ last.kind = "reactionadd_bot" =>
          /\ ~last.fetched
          /\ Dropped
    /\ last.kind = "reactionadd" =>
          /\ last.fetched
          /\ (last.fetchOk /\ discord[last.msg].AuthorID # BotID) =>
                /\ last.handled
                /\ last.fx.evaluated # <<>>
                /\ last.fx.matched = IF last.matching = {} THEN <<>>
                                     ELSE <<FirstOf(last.matching)>>

\* the event of a reaction of the bot arrived for a message of another
\* user on which a rule matches
C22_Witness ==
    /\ last.kind = "reactionadd_bot"
    /\ discord[last.msg].AuthorID # BotID
    /\ Matching(Delivered(discord[last.msg]), globalConfig, stateUser) # {}
    /\ Dropped

----------------------------------------------------------------------------
(* The poller and the shutdown of the process                              *)

\* C25 as stated: the poller is stopped before the session is closed: a
\* pass of the poller that begins once the signal has arrived visits no
\* entry, queries no receipt and issues no reaction-add call.
C25_NoPollAfterShutdown == Polled => ~poll.late

\* main has received the signal and is closing the session; a pass that
\* began after the signal queried a receipt and issued the reaction-add
\* call of an acknowledged notification
C25_Witness ==
    /\ Polled
    /\ poll.late
    /\ mainAt = "closing"
    /\ last.queried
    /\ last.reacts # <<>>

----------------------------------------------------------------------------
(* Handlers that overlap on a message, and what a suppressed send rests on *)

\* the rules that have a destination and a reactionEmoji
MarkingRules ==
    {i \in 1..Len(globalConfig.Rules) :
        /\ globalConfig.Rules[i].Actions.PushoverDestination # ""
        /\ globalConfig.Rules[i].Actions.ReactionEmoji # ""}

\* C26 as stated: also when handlers of events on the same message overlap,
\* at most one notification is sent per message for a rule that has a
\* destination and a reactionEmoji.
C26_OneNotificationPerRule ==
    \A id \in MessageIDs, i \in MarkingRules : dispatched[id][i] <= 1

\* an edit handler fetched the message while the handler that had sent the
\* notification of a rule had not yet added the rule's reaction, and sent
\* the notification of that rule a second time
C26_Witness ==
    /\ last.kind = "edit"
    /\ last.handled
    /\ last.baseline = MaxInt32
    /\ Len(last.fx.sends) = 1
    /\ ~last.fx.sends[1].err
    /\ last.fx.matched[1] \in MarkingRules
    /\ dispatched[last.msg][last.fx.matched[1]] = 2
    /\ last.reactions = {}

\* C27 as stated: a send is suppressed only on a message for which an
\* earlier send returned without error, for a rule whose priority the code
\* ranks equal to or before the priority of the matched rule (rules.go:42,
\* the smaller number first): no baseline comes from a failed send or from
\* a rule without destination.
C27_SuppressedAfterDispatch ==
    (Handled /\ last.fx.suppressed # <<>>) =>
        \E j \in 1..Len(globalConfig.Rules) :
            /\ dispatched[last.msg][j] > 0
            /\ globalConfig.Rules[j].Actions.Priority
                  <= MatchedRule.Actions.Priority

\* the send of an edit was suppressed on a message for which no
\* notification has ever been sent without error
C27_Witness ==
    /\ Handled
    /\ last.kind = "edit"
    /\ last.fx.suppressed # <<>>
    /\ inflight = EmptyBag
    /\ \A j \in 1..Len(globalConfig.Rules) : dispatched[last.msg][j] = 0

----------------------------------------------------------------------------
(* The registry between the handlers and the poller                        *)

\* the entries of the registry that track a notification of message id
EntriesOf(id) ==
    {k \in DOMAIN trackedMessages : trackedMessages[k].DiscordMessageID = id}

\* C31: a step that is not a visit of the poller leaves every entry of the
\* registry in place and as it was: the handlers only add entries, under
\* receipts not in use, and the registry shrinks only through poll ticks.
C31_HandlersKeepEntries ==
    [][last'.kind # "poll" =>
          \A k \in DOMAIN trackedMessages :
              /\ k \in DOMAIN trackedMessages'
              /\ trackedMessages'[k] = trackedMessages[k]]_vars

\* the send of an edit was suppressed on a message that has a tracked
\* notification
C31_Witness ==
    /\ Handled
    /\ last.kind = "edit"
    /\ last.fx.suppressed # <<>>
    /\ last.kept
    /\ EntriesOf(last.msg) # {}

----------------------------------------------------------------------------
(* Calls that fail in a handled event                                      *)

\* the last handled event sent an emergency notification, for which the
\* service returned a receipt, and the reaction-add call of the matched
\* rule failed
TrackedButUnmarked ==
    /\ Handled
    /\ Len(last.fx.sends) >= 1
    /\ ~last.fx.sends[1].err
    /\ last.fx.sends[1].receipt # ""
    /\ last.fx.reacts # <<>>
    /\ ~last.fx.reacts[1].ok

\* C32: when the reaction-add call of the rule fails after an emergency
\* send that returned a receipt, the event has made that one send and no
\* other, and the entry of the receipt is in the registry, stored once.
C32_FailedReactionKeepsSend ==
    TrackedButUnmarked =>
        LET receipt == last.fx.sends[1].receipt
        IN  /\ Len(last.fx.sends) = 1
            /\ Len(last.fx.stores) = 1
            /\ last.added = {receipt}
            /\ receipt \in DOMAIN trackedMessages
            /\ trackedMessages[receipt].DiscordMessageID = last.msg
            /\ hist[receipt].stored = 1

\* the reaction-add call failed after an emergency send on an edit; the
\* message has no reaction of the bot and the receipt is tracked
C32_Witness ==
    /\ TrackedButUnmarked
    /\ last.kind = "edit"
    /\ ~\E r \in discord[last.msg].Reactions : r.Me
    /\ last.fx.sends[1].receipt \in DOMAIN trackedMessages

\* the send call of the last handled event returned an error
SendFailed ==
    /\ Handled
    /\ last.fx.sends # <<>>
    /\ last.fx.sends[1].err

\* C33: a handled event makes at most one send call; when the call fails
\* the event makes no other, the rule it was made for stays the only rule
\* matched and the last rule evaluated, and the registry is as it was.
C33_FailedSendNotRetried ==
    /\ Handled => Len(last.fx.sends) <= 1
    /\ SendFailed =>
          /\ Len(last.fx.sends) = 1
          /\ last.fx.matched = <<last.fx.sends[1].rule>>
          /\ last.fx.evaluated[Len(last.fx.evaluated)] = last.fx.sends[1].rule
          /\ last.fx.stores = <<>>
          /\ last.added = {}
          /\ last.kept

\* the send of an emergency rule failed while a later rule that has a
\* destination matches the message too
C33_Witness ==
    /\ SendFailed
    /\ MatchedRule.Actions.Priority = PriorityEmergency
    /\ MatchedRule.Actions.Emergency # <<>>
    /\ \E j \in last.matching :
          /\ j > last.fx.matched[1]
          /\ globalConfig.Rules[j].Actions.PushoverDestination # ""

----------------------------------------------------------------------------
(* Events that no rule matches                                             *)

\* the last handled event was of a message on which no rule's conditions
\* hold
Unmatched == Handled /\ last.matching = {}

\* C34: when no rule's conditions hold for a handled event, every rule has
\* been evaluated, none is matched, ProcessRules makes no send call and no
\* reaction-add call, the message has the reactions it had and the
\* registry is as it was.
C34_NoMatchNoEffect ==
    Unmatched =>
        /\ last.fx.evaluated = [i \in 1..Len(globalConfig.Rules) |-> i]
        /\ last.fx.matched = <<>>
        /\ last.fx.suppressed = <<>>
        /\ last.fx.sends = <<>>
        /\ last.fx.reacts = <<>>
        /\ last.fx.stores = <<>>
        /\ discord[last.msg].Reactions = last.reactions
        /\ last.added = {}
        /\ last.kept

\* no rule matched the edit of a message that has a tracked notification
C34_Witness ==
    /\ Unmatched
    /\ last.kind = "edit"
    /\ Len(last.fx.evaluated) = 2
    /\ \E k \in DOMAIN trackedMessages :
          trackedMessages[k].DiscordMessageID = last.msg

----------------------------------------------------------------------------
(* The end of every tracked notification                                   *)

\* the clock goes on past the expiry time of the entry of receipt k: the
\* clock of the model stops at MaxTime, and an entry is expired only at a
\* time later than its expiry time (main.go:251)
ClockPassesExpiry(k) == trackedMessages[k].ExpiryTime < MaxTime

\* C35: with a ticker that keeps firing and a clock that advances past its
\* expiry time, every entry of the registry, registered at whatever time, is
\* removed in the end, whatever the receipt queries answer: at the latest by
\* the visit that finds it expired.
C35_EveryEntryRemoved ==
    \A k \in Receipts :
        (k \in DOMAIN trackedMessages /\ ClockPassesExpiry(k))
            ~> (k \notin DOMAIN trackedMessages)

\* an entry was visited twice without leaving the registry by an answer of
\* the service, was then found expired, and is gone
C35_Witness ==
    /\ Polled
    /\ ~last.queried
    /\ Expired(last.t, last.entry)
    /\ last.key \notin DOMAIN trackedMessages
    /\ last.resp = NoReceiptResponse
    /\ hist[last.key].stored = 1
    /\ hist[last.key].terminal = 1

\* the reaction-add call of the last visit of the poller failed
AckReactionFailed ==
    /\ Polled
    /\ last.reacts # <<>>
    /\ ~last.reacts[1].ok

\* C36: when the reaction-add call of an acknowledgement fails, the entry
\* is removed by that visit all the same; a visit that makes the call is
\* the first and only end of its receipt's tracking, so no later tick makes
\* the call again.
C36_AckReactionNotRetried ==
    /\ AckReactionFailed =>
          /\ last.key \notin DOMAIN trackedMessages
          /\ hist[last.key].terminal = 1
    /\ (Polled /\ last.reacts # <<>>) =>
          /\ last.prior.terminal = 0
          /\ Len(last.reacts) = 1

\* the service reported the acknowledgement, the reaction-add call failed,
\* the entry is gone and the message has no reaction of the bot
C36_Witness ==
    /\ AckReactionFailed
    /\ last.resp.Acknowledged
    /\ last.key \notin DOMAIN trackedMessages
    /\ ~\E r \in discord[last.entry.DiscordMessageID].Reactions : r.Me

----------------------------------------------------------------------------
(* Rules that leave no mark                                                *)

\* the last handled event matched a rule that has a destination and no
\* reactionEmoji
MatchedUnmarking ==
    /\ Handled
    /\ last.fx.matched # <<>>
    /\ MatchedRule.Actions.PushoverDestination # ""
    /\ MatchedRule.Actions.ReactionEmoji = ""

\* C37: a handler whose matched rule has a destination and no reactionEmoji
\* makes no reaction-add call, so that it leaves no reaction on the
\* message; and an edit event whose first match is such a rule sends the
\* notification, when the fetched message has no reaction of the bot that
\* is a rule's reactionEmoji.
C37_NoEmojiNoDeduplication ==
    MatchedUnmarking =>
        /\ last.fx.reacts = <<>>
        /\ (last.kind = "edit" /\ NotifiedPriorities = {}) =>
              /\ last.baseline = MaxInt32
              /\ last.fx.suppressed = <<>>
              /\ Len(last.fx.sends) = 1

\* the edit of a message was notified under a rule without reactionEmoji
\* while an earlier notification of the same message, under the same rule,
\* is tracked
C37_Witness ==
    /\ MatchedUnmarking
    /\ last.kind = "edit"
    /\ Len(last.fx.sends) = 1
    /\ ~last.fx.sends[1].err
    /\ last.added # {}
    /\ \E k \in EntriesOf(last.msg) : k \notin last.added

====
